---- MODULE Spec2Model ----
(***************************************************************************)
(* Update-set scoped record creation of the ServiceNow MCP server.         *)
(*                                                                         *)
(* Two objects hold state: the controller (SimpleServiceNowMCPServer,      *)
(* src/src/simple-server.ts) and the client (ServiceNowApiService,         *)
(* src/src/services/servicenow-api.ts).  Each tool invocation is one       *)
(* action; the answers of the remote instance (rows found, request         *)
(* rejected) are inputs drawn with \E.                                     *)
(***************************************************************************)
EXTENDS Integers, Sequences, FiniteSets, TLC

(***************************************************************************)
(* Bounds                                                                  *)
(***************************************************************************)
\* number of distinct non-empty update set sys_ids a caller may name
NumIds == 2

\* number of tool invocations that may be in progress at once
NumCallers == 3

\* number of invocations each of them makes
MaxCalls == 2

\* number of variables a catalog item may hold
MaxVariables == 3

\* tool invocations of one session that are in progress at the same time
NumInvocations == 2

(***************************************************************************)
(* JavaScript values.  Strings stand for themselves; the other values are  *)
(* tokens that no string of the model equals.                              *)
(***************************************************************************)
JsUndefined == "<undefined>"
JsNull == "<null>"
JsTrue == "<true>"
JsFalse == "<false>"

\* ToBoolean of the values the model uses
\* a number, as a token: the number n of the program is JsNumber(n)
JsNumber(n) == "<" \o ToString(n) \o ">"

Truthy(v) == v \notin {JsUndefined, JsNull, JsFalse, "", JsNumber(0)}

\* a || b
OrElse(a, b) == IF Truthy(a) THEN a ELSE b

\* a !== false
NotFalse(a) == IF a = JsFalse THEN JsFalse ELSE JsTrue

(***************************************************************************)
(* Objects (record payloads): functions from field names to values.        *)
(***************************************************************************)
EmptyObj == [x \in {} |-> JsUndefined]

\* obj.f  (a missing property reads as undefined)
Get(obj, f) == IF f \in DOMAIN obj THEN obj[f] ELSE JsUndefined

\* obj.f = v
Put(obj, f, v) == [x \in (DOMAIN obj) \cup {f} |-> IF x = f THEN v ELSE obj[x]]

TrackingField == "sys_update_set"

IdOf(i) == "us" \o ToString(i)
UpdateSetIds == {IdOf(i) : i \in 1..NumIds}

\* what a caller may pass as update_set_id (the handler does not validate it)
IdArgs == UpdateSetIds \cup {"", JsUndefined}

\* what a caller may put in the tracking field of a create-record payload
CallerTrackingValues == {"", JsNull, "usOwn", IdOf(1)}

\* the fields arguments of create-record
CallerPayloads ==
    {[short_description |-> "d"]}
    \cup {[short_description |-> "d", sys_update_set |-> v] : v \in CallerTrackingValues}
    \cup {EmptyObj}

Scopes == {"global", "x_app"}
ConfiguredScope == "global"
UpdateSetPrefix == "MCP_"
Username == "admin"

(***************************************************************************)
(* HTTP requests.  outcome is "ok" or "error" (a non-2xx answer, which     *)
(* axios turns into a rejection); rows is the number of rows of a GET.     *)
(***************************************************************************)
Request(method, table, data, outcome, rows) ==
    [method |-> method, table |-> table, data |-> data, outcome |-> outcome, rows |-> rows]

GetOutcomes == {"error", "zero", "one"}
WriteOutcomes == {"ok", "error"}

RowsOf(o) == IF o = "one" THEN 1 ELSE 0
HttpOf(o) == IF o = "error" THEN "error" ELSE "ok"

\* ServiceNowApiService.getRecords
ApiGetRecords(table, query, o) ==
    [sent |-> <<Request("GET", table, [sysparm_query |-> query], HttpOf(o), RowsOf(o))>>,
     threw |-> (o = "error"),
     rows |-> RowsOf(o)]

\* ServiceNowApiService.createRecord, the payload that is posted
ApiCreateRecordDataNoInject(currentUpdateSetId, data) == data

ApiCreateRecordData(currentUpdateSetId, data) ==
    IF Truthy(currentUpdateSetId) /\ ~Truthy(Get(data, TrackingField))
    THEN Put(data, TrackingField, currentUpdateSetId)
    ELSE data

\* ServiceNowApiService.createRecord
ApiCreateRecord(currentUpdateSetId, table, data, o) ==
    [sent |-> <<Request("POST", table, ApiCreateRecordData(currentUpdateSetId, data), o, 0)>>,
     threw |-> (o = "error"),
     data |-> ApiCreateRecordData(currentUpdateSetId, data)]

\* ServiceNowApiService.updateRecord
ApiUpdateRecordInjecting(currentUpdateSetId, table, sysId, data, o) ==
    [sent |-> <<Request("PUT", table, ApiCreateRecordData(currentUpdateSetId, data), o, 0)>>,
     threw |-> (o = "error")]

ApiUpdateRecord(currentUpdateSetId, table, sysId, data, o) ==
    [sent |-> <<Request("PUT", table, data, o, 0)>>,
     threw |-> (o = "error")]

\* ServiceNowApiService.createUpdateSet, the client's tracked id after the call
ApiCreateUpdateSetSelectsCreated(currentUpdateSetId, o) ==
    IF o = "ok" THEN "usCreated" ELSE currentUpdateSetId

ApiIdAfterCreateUpdateSet(currentUpdateSetId, o) == currentUpdateSetId

\* ServiceNowApiService.createUpdateSet
ApiCreateUpdateSet(currentUpdateSetId, scope, name, description, o) ==
    LET updateSetData == [name |-> UpdateSetPrefix \o name,
                          description |-> description,
                          state |-> "build",
                          application |-> scope]
        r == ApiCreateRecord(currentUpdateSetId, "sys_update_set", updateSetData, o)
    IN  [sent |-> r.sent, threw |-> r.threw,
         id |-> ApiIdAfterCreateUpdateSet(currentUpdateSetId, o)]

\* ServiceNowApiService.setCurrentUpdateSet, the catch block's store
ApiIdKeptOnFailedSelect(currentUpdateSetId, sysId) == currentUpdateSetId

ApiIdAfterFailedSelect(currentUpdateSetId, sysId) == sysId

\* ServiceNowApiService.setCurrentUpdateSet: this.currentUpdateSetId while the
\* preference is negotiated (it is stored after the write, or in the catch)
ApiIdStoredBeforeNegotiation(currentUpdateSetId, sysId) == sysId

ApiIdDuringSelect(currentUpdateSetId, sysId) == currentUpdateSetId

\* ServiceNowApiService.setCurrentUpdateSet: user lookup, preference lookup,
\* then PUT on the existing preference row or POST of a new one
ApiSetCurrentUpdateSetAlwaysCreating(currentUpdateSetId, sysId, user, pref, write) ==
    LET userReq == ApiGetRecords("sys_user", "user_name=" \o Username, user)
        prefReq == ApiGetRecords("sys_user_preference", "user=user1^name=sys_update_set", pref)
        putReq == Request("PUT", "sys_user_preference", [value |-> sysId], write, 0)
        postReq == ApiCreateRecord(ApiIdDuringSelect(currentUpdateSetId, sysId),
                                   "sys_user_preference",
                                   [user |-> "user1", name |-> "sys_update_set", value |-> sysId],
                                   write)
        sent == IF user # "one" THEN userReq.sent
                ELSE IF pref = "error" THEN userReq.sent \o prefReq.sent
                ELSE IF pref = "one" THEN userReq.sent \o prefReq.sent \o <<putReq>> \o postReq.sent
                ELSE userReq.sent \o prefReq.sent \o postReq.sent
        threw == user # "one" \/ pref = "error" \/ write = "error"
    IN  [sent |-> sent,
         threw |-> threw,
         id |-> IF threw THEN ApiIdAfterFailedSelect(currentUpdateSetId, sysId) ELSE sysId]

ApiSetCurrentUpdateSet(currentUpdateSetId, sysId, user, pref, write) ==
    LET userReq == ApiGetRecords("sys_user", "user_name=" \o Username, user)
        prefReq == ApiGetRecords("sys_user_preference", "user=user1^name=sys_update_set", pref)
        putReq == Request("PUT", "sys_user_preference", [value |-> sysId], write, 0)
        postReq == ApiCreateRecord(ApiIdDuringSelect(currentUpdateSetId, sysId),
                                   "sys_user_preference",
                                   [user |-> "user1", name |-> "sys_update_set", value |-> sysId],
                                   write)
        sent == IF user # "one" THEN userReq.sent
                ELSE IF pref = "error" THEN userReq.sent \o prefReq.sent
                ELSE IF pref = "one" THEN userReq.sent \o prefReq.sent \o <<putReq>>
                ELSE userReq.sent \o prefReq.sent \o postReq.sent
        threw == user # "one" \/ pref = "error" \/ write = "error"
    IN  [sent |-> sent,
         threw |-> threw,
         id |-> IF threw THEN ApiIdAfterFailedSelect(currentUpdateSetId, sysId) ELSE sysId]

\* ServiceNowApiService.setApplicationScope, config.defaultScope after the call
ApiSetApplicationScopeLogOnly(scope) == ConfiguredScope

ApiSetApplicationScope(scope) == scope

\* ServiceNowApiService.createScriptInclude
ApiCreateScriptInclude(currentUpdateSetId, scope, params, o) ==
    LET scriptIncludeData == [name |-> params.name,
                              script |-> params.script,
                              description |-> OrElse(params.description, ""),
                              sys_scope |-> OrElse(params.application_scope, scope),
                              api_name |-> OrElse(params.api_name, params.name),
                              access |-> OrElse(params.access, "package_private"),
                              active |-> NotFalse(params.active)]
    IN  ApiCreateRecord(currentUpdateSetId, "sys_script_include", scriptIncludeData, o)

\* a || false
OrFalseAlways(a) == JsFalse

OrFalse(a) == OrElse(a, JsFalse)

\* ServiceNowApiService.createScheduledJob, the boolean flags of scheduledJobData
ScheduledJobFlags(params) ==
    [active |-> NotFalse(params.active),
     conditional |-> OrFalse(params.conditional)]

\* ServiceNowApiService.createScheduledJob
ApiCreateScheduledJob(currentUpdateSetId, params, o) ==
    LET scheduledJobData ==
            [name |-> "Job", script |-> "...", description |-> "", run_period |-> "daily",
             run_time |-> "00:00:00", run_dayofweek |-> "", run_dayofmonth |-> "",
             active |-> ScheduledJobFlags(params).active,
             conditional |-> ScheduledJobFlags(params).conditional,
             condition |-> ""]
    IN  ApiCreateRecord(currentUpdateSetId, "sysauto_script", scheduledJobData, o)

\* ServiceNowApiService.createCatalogUIPolicy, the boolean flags of catalogUIPolicyData
CatalogUIPolicyFlags(params) ==
    [active |-> NotFalse(params.active),
     applies_catalog |-> NotFalse(params.applies_on_catalog_item_view),
     applies_req_item |-> OrFalse(params.applies_on_requested_items),
     applies_sc_task |-> OrFalse(params.applies_on_catalog_tasks),
     applies_target_record |-> OrFalse(params.applies_on_target_record),
     on_load |-> NotFalse(params.on_load),
     reverse_if_false |-> OrFalse(params.reverse_if_false)]

\* ServiceNowApiService.createCatalogUIPolicy
ApiCreateCatalogUIPolicy(currentUpdateSetId, params, o) ==
    LET flags == CatalogUIPolicyFlags(params)
        catalogUIPolicyData ==
            [name |-> "Policy", short_description |-> "Policy", catalog_item |-> "cat1",
             variable_set |-> "", applies_to |-> "item", catalog_conditions |-> "",
             active |-> flags.active,
             applies_catalog |-> flags.applies_catalog,
             applies_req_item |-> flags.applies_req_item,
             applies_sc_task |-> flags.applies_sc_task,
             applies_target_record |-> flags.applies_target_record,
             on_load |-> flags.on_load,
             reverse_if_false |-> flags.reverse_if_false,
             order |-> JsNumber(100)]
    IN  ApiCreateRecord(currentUpdateSetId, "catalog_ui_policy", catalogUIPolicyData, o)

(***************************************************************************)
(* ServiceNowApiService.createCatalogUIPolicyAction                        *)
(***************************************************************************)

\* the catalog_item field of a catalog_ui_policy row: a bare sys_id string, a
\* reference object {value: sys_id}, or no field at all.  str is the value
\* the field takes inside a template literal.
BareRef(v) == [kind |-> "string", str |-> v, value |-> JsUndefined]
ObjectRef(v) == [kind |-> "object", str |-> "[object Object]", value |-> v]
MissingRef == [kind |-> "undefined", str |-> JsUndefined, value |-> JsUndefined]

CatalogItemIds == {"cat1", "cat2"}

CatalogItemRefs ==
    {MissingRef, BareRef(""), ObjectRef("")}
        \cup {BareRef(x) : x \in CatalogItemIds} \cup {ObjectRef(x) : x \in CatalogItemIds}

\* what the lookup of the policy can find: no row, or one row
PolicyTables == {<<>>} \cup {<<[sys_id |-> "pol1", catalog_item |-> ref]>> : ref \in CatalogItemRefs}

\* the i-th variable of catalog item "cat1"; names repeat, sys_ids do not
VariableRow(i) == [name |-> IF i % 2 = 1 THEN "a" ELSE "b", sys_id |-> "var" \o ToString(i)]

VariableTables == {[i \in 1..n |-> VariableRow(i)] : n \in 0..MaxVariables}

VariableNames == {"a", "nonexistent_var"}

\* rows of item_option_new matching cat_item=<item>, and ^name=<name> if given
VariablesOf(table, item, name) ==
    IF item # "cat1" THEN <<>>
    ELSE IF name = JsUndefined THEN table
    ELSE SelectSeq(table, LAMBDA v : v.name = name)

NamesOf(rows) == [i \in 1..Len(rows) |-> rows[i].name]

\* !policyResponse.catalog_item
RefFalsyNever(ref) == FALSE

RefFalsy(ref) == ref.kind # "object" /\ ~Truthy(ref.str)

\* typeof catalog_item === 'object' ? catalog_item.value : catalog_item
CatalogItemIdNotUnwrapped(ref) == ref.str

CatalogItemId(ref) == IF ref.kind = "object" THEN ref.value ELSE ref.str

\* getRecords with the rows the remote table holds
ApiGetRows(table, query, failed, rows) ==
    [sent |-> <<Request("GET", table, [sysparm_query |-> query],
                        IF failed THEN "error" ELSE "ok", IF failed THEN 0 ELSE Len(rows))>>,
     threw |-> failed,
     rows |-> IF failed THEN <<>> ELSE rows]

Failure(message, count, names) == [message |-> message, count |-> count, names |-> names]

NoFailure == Failure("none", 0, <<>>)

\* the Error thrown when no variable of that name is found
NotFoundFailureCountingMatches(variables, allVariables) ==
    Failure("variable_not_found", Len(variables), <<>>)

NotFoundFailure(variables, allVariables) ==
    Failure("variable_not_found", Len(allVariables), <<>>)

PutIf(cond, obj, f, v) == IF cond THEN Put(obj, f, v) ELSE obj

DefaultOrder == JsNumber(100)

\* actionData
PolicyActionDataCopyingValueFields(params, variableSysId) ==
    LET base == [ui_policy |-> params.catalog_ui_policy,
                 catalog_variable |-> "IO:" \o variableSysId,
                 variable |-> params.variable_name,
                 order |-> OrElse(params.order, DefaultOrder)]
        d1 == PutIf(params.mandatory # JsUndefined, base, "mandatory", params.mandatory)
        d2 == PutIf(params.visible # JsUndefined, d1, "visible", params.visible)
        d3 == PutIf(params.read_only # JsUndefined, d2, "disabled", params.read_only)
        d4 == PutIf(params.value_action # JsUndefined, d3, "cleared", params.value_action)
        d5 == PutIf(params.value # JsUndefined, d4, "default_value", params.value)
        d6 == PutIf(params.field_message_type # JsUndefined, d5, "help_tag",
                    params.field_message_type)
    IN  PutIf(params.field_message # JsUndefined, d6, "help_text", params.field_message)

PolicyActionData(params, variableSysId) ==
    LET base == [ui_policy |-> params.catalog_ui_policy,
                 catalog_variable |-> "IO:" \o variableSysId,
                 variable |-> params.variable_name,
                 order |-> OrElse(params.order, DefaultOrder)]
        d1 == PutIf(params.mandatory # JsUndefined, base, "mandatory", params.mandatory)
        d2 == PutIf(params.visible # JsUndefined, d1, "visible", params.visible)
        d3 == PutIf(params.read_only # JsUndefined, d2, "disabled", params.read_only)
        d4 == PutIf(params.value_action # JsUndefined, d3, "cleared",
                    IF params.value_action = "clear_value" THEN "true" ELSE "false")
        d5 == PutIf(params.value # JsUndefined /\ params.value_action = "set_value", d4,
                    "default_value", params.value)
        d6 == PutIf(params.field_message_type # JsUndefined, d5, "help_tag",
                    params.field_message_type)
    IN  PutIf(params.field_message # JsUndefined, d6, "help_text", params.field_message)

\* createCatalogUIPolicyAction: policy lookup, variable lookup, the listing of
\* all variables when none matched, then the create.  failAt is the request
\* the transport fails on (0: none).
ApiCreateCatalogUIPolicyAction(currentUpdateSetId, params, policies, table, failAt) ==
    LET policyGet == ApiGetRows("catalog_ui_policy", "sys_id=" \o params.catalog_ui_policy,
                                failAt = 1, policies)
        ref == policyGet.rows[1].catalog_item
        catalogItemId == CatalogItemId(ref)
        variableGet == ApiGetRows("item_option_new",
                                  "cat_item=" \o catalogItemId \o "^name=" \o params.variable_name,
                                  failAt = 2,
                                  VariablesOf(table, catalogItemId, params.variable_name))
        allGet == ApiGetRows("item_option_new", "cat_item=" \o catalogItemId, failAt = 3,
                             VariablesOf(table, catalogItemId, JsUndefined))
        create == ApiCreateRecord(currentUpdateSetId, "catalog_ui_policy_action",
                                  PolicyActionData(params, variableGet.rows[1].sys_id),
                                  IF failAt = 3 THEN "error" ELSE "ok")
        Thrown(requests, f, logged) ==
            [sent |-> requests, threw |-> TRUE, failure |-> f, logged |-> logged]
        Transport == Failure("request_failed", 0, <<>>)
    IN  IF policyGet.threw THEN Thrown(policyGet.sent, Transport, <<>>)
        ELSE IF Len(policyGet.rows) = 0
        THEN Thrown(policyGet.sent, Failure("policy_not_found", 0, <<>>), <<>>)
        ELSE IF RefFalsy(ref)
        THEN Thrown(policyGet.sent, Failure("policy_has_no_catalog_item", 0, <<>>), <<>>)
        ELSE IF ~Truthy(catalogItemId)
        THEN Thrown(policyGet.sent, Failure("catalog_item_reference_empty", 0, <<>>), <<>>)
        ELSE IF variableGet.threw
        THEN Thrown(policyGet.sent \o variableGet.sent, Transport, <<>>)
        ELSE IF Len(variableGet.rows) = 0
        THEN IF allGet.threw
             THEN Thrown(policyGet.sent \o variableGet.sent \o allGet.sent, Transport, <<>>)
             ELSE Thrown(policyGet.sent \o variableGet.sent \o allGet.sent,
                         NotFoundFailure(variableGet.rows, allGet.rows), NamesOf(allGet.rows))
        ELSE [sent |-> policyGet.sent \o variableGet.sent \o create.sent,
              threw |-> create.threw,
              failure |-> IF create.threw THEN Transport ELSE NoFailure,
              logged |-> <<>>]

\* ServiceNowApiService.createFlow
ApiCreateFlow(currentUpdateSetId, scope, params, o) ==
    LET flowData == [name |-> params.name,
                     description |-> OrElse(params.description, ""),
                     sys_scope |-> OrElse(params.scope, scope),
                     active |-> NotFalse(params.active),
                     state |-> "published"]
    IN  ApiCreateRecord(currentUpdateSetId, "sys_hub_flow", flowData, o)

(***************************************************************************)
(* Controller helpers                                                      *)
(***************************************************************************)
\* SimpleServiceNowMCPServer.addUpdateSetToRecord, the contents of recordData
\* after the call
addUpdateSetToRecordOverwriting(currentUpdateSetId, recordData) ==
    IF Truthy(currentUpdateSetId)
    THEN Put(recordData, TrackingField, currentUpdateSetId)
    ELSE recordData

addUpdateSetToRecord(currentUpdateSetId, recordData) ==
    IF Truthy(currentUpdateSetId) /\ ~Truthy(Get(recordData, TrackingField))
    THEN Put(recordData, TrackingField, currentUpdateSetId)
    ELSE recordData

\* addUpdateSetToRecord and the client's createRecord assign to the object they
\* are handed and pass the same reference on: the object of the caller holds
\* what was written
ArgumentObjectCopied(passed, written) == passed

ArgumentObjectAfter(passed, written) == written

Report(kind, id) == [kind |-> kind, id |-> id]

\* SimpleServiceNowMCPServer.setCurrentUpdateSet, the store before the negotiation
CtrlIdStoredOnSuccessOnly(currentUpdateSetId, update_set_id, threw) ==
    IF threw THEN currentUpdateSetId ELSE update_set_id

CtrlIdAfterSetCurrent(currentUpdateSetId, update_set_id, threw) == update_set_id

\* SimpleServiceNowMCPServer.setCurrentUpdateSet, the inner try/catch and the
\* report that follows it
SetCurrentReportTellingFailure(threw, update_set_id) ==
    IF threw THEN Report("failed_set_current", update_set_id)
    ELSE Report("update_set_tracked", update_set_id)

SetCurrentReport(threw, update_set_id) == Report("update_set_tracked", update_set_id)

\* SimpleServiceNowMCPServer.getCurrentUpdateSet
GetCurrentRequests(currentUpdateSetId, o) ==
    IF Truthy(currentUpdateSetId)
    THEN ApiGetRecords("sys_update_set", "sys_id=" \o currentUpdateSetId, o).sent
    ELSE <<>>

GetCurrentReportEscalating(currentUpdateSetId, o) ==
    IF Truthy(currentUpdateSetId) /\ o = "one"
    THEN Report("current_details", currentUpdateSetId)
    ELSE IF Truthy(currentUpdateSetId) /\ o = "error"
    THEN Report("failed_get_current", currentUpdateSetId)
    ELSE Report("none_tracked", JsUndefined)

GetCurrentReport(currentUpdateSetId, o) ==
    IF Truthy(currentUpdateSetId) /\ o = "one"
    THEN Report("current_details", currentUpdateSetId)
    ELSE IF Truthy(currentUpdateSetId) /\ o = "error"
    THEN Report("current_id_only", currentUpdateSetId)
    ELSE Report("none_tracked", JsUndefined)

\* CallToolRequestSchema handler: the default branch of the switch throws
\* inside the try, and the catch returns the error as a text result
UnknownToolEscapes(name) == Report("rejected", name)

UnknownToolResult(name) == Report("error_executing", name)

\* the text results that report a failure
FailureTexts ==
    {"error_executing", "failed_set_current", "failed_get_current", "failed_create_record",
     "failed_create_script_include", "failed_create_flow", "failed_create_variable_set",
     "failed_create_catalog_item", "failed_create_update_set", "failed_query",
     "failed_update_business_rule", "failed_create_catalog_ui_policy_action"}

\* the text results that report a success
SuccessTexts ==
    {"update_set_tracked", "current_details", "current_id_only", "none_tracked", "created",
     "created_script_include", "created_flow", "created_variable_set",
     "created_catalog_item", "created_update_set", "scope_set", "found",
     "updated_business_rule", "created_catalog_ui_policy_action"}

(***************************************************************************)
(* State                                                                   *)
(***************************************************************************)
VARIABLES
    serviceNowApi,            \* controller: the memoized client, JsNull before first use
    currentUpdateSetId,       \* controller: tracked update set id
    apiCurrentUpdateSetId,    \* client: tracked update set id
    defaultScope,             \* client: config.defaultScope
    tool,                     \* name of the tool invocation just processed
    argGiven,                 \* whether that invocation got its argument object
    argId,                    \* its update_set_id / sys_id / table argument
    argFields,                \* its payload argument as the caller passed it
    callerFields,             \* the caller's payload object after the invocation
    sent,                     \* the requests that invocation issued, in order
    result,                   \* the report it returned
    warned,                   \* whether it logged a warning
    selected,                 \* id given to the last completed set-current-update-set
    prevSelected,             \* the same, as it was when the invocation started
    selectFailed,             \* whether that negotiation failed
    createdUpdateSet,         \* whether an update set was created in this session
    lastScope,                \* scope given to the last set-application-scope
    updatedFields,            \* the 'Updated fields' of the last update-business-rule result
    failure,                  \* the error the client threw in that invocation
    loggedNames,              \* the variable names it wrote to the log
    policyRows,               \* remote instance: rows of catalog_ui_policy with the policy's sys_id
    itemVariables,            \* remote instance: rows of item_option_new under catalog item "cat1"
    pc,                       \* concurrent callers: where each invocation stands
    got,                      \* concurrent callers: the client each was handed
    calls,                    \* concurrent callers: invocations each has finished
    builds,                   \* number of clients constructed
    auths,                    \* number of authenticate() calls
    job,                      \* overlapping invocations: the tool and id of each
    at,                       \* overlapping invocations: the await each is suspended at
    wire                      \* overlapping invocations: the requests each has issued

sessionVars == <<serviceNowApi, currentUpdateSetId, apiCurrentUpdateSetId, defaultScope,
                 tool, argGiven, argId, argFields, callerFields, sent, result, warned,
                 selected, prevSelected, selectFailed, createdUpdateSet, lastScope,
                 updatedFields>>

policyActionVars == <<failure, loggedNames, policyRows, itemVariables>>

callerVars == <<pc, got, calls, builds, auths>>

selectVars == <<job, at, wire>>

vars == <<sessionVars, policyActionVars, callerVars, selectVars>>

Callers == 1..NumCallers

Invocations == 1..NumInvocations

NoJob == [tool |-> "none", id |-> JsUndefined]

\* no invocation has been received
NoneInProgress ==
    /\ job = [c \in Invocations |-> NoJob]
    /\ at = [c \in Invocations |-> "idle"]
    /\ wire = [c \in Invocations |-> <<>>]


Init ==
    /\ serviceNowApi = JsNull
    /\ currentUpdateSetId = JsNull
    /\ apiCurrentUpdateSetId = JsUndefined
    /\ defaultScope = ConfiguredScope
    /\ tool = "none"
    /\ argGiven = FALSE
    /\ argId = JsUndefined
    /\ argFields = EmptyObj
    /\ callerFields = EmptyObj
    /\ sent = <<>>
    /\ result = Report("none", JsUndefined)
    /\ warned = FALSE
    /\ selected = JsUndefined
    /\ prevSelected = JsUndefined
    /\ selectFailed = FALSE
    /\ createdUpdateSet = FALSE
    /\ lastScope = JsUndefined
    /\ updatedFields = {}
    /\ failure = NoFailure
    /\ loggedNames = <<>>
    /\ policyRows = <<>>
    /\ itemVariables = <<>>
    /\ pc = [p \in Callers |-> "idle"]
    /\ got = [p \in Callers |-> JsNull]
    /\ calls = [p \in Callers |-> 0]
    /\ builds = 0
    /\ auths = 0
    /\ NoneInProgress

\* SimpleServiceNowMCPServer.getServiceNowApi: built on first use, then reused
getServiceNowApi == serviceNowApi' = "instance"

\* what every invocation records about itself
Invoked(name, given, id, fields, after) ==
    /\ tool' = name
    /\ argGiven' = given
    /\ argId' = id
    /\ argFields' = fields
    /\ callerFields' = after
    /\ prevSelected' = selected
    /\ IF name \in {"create-update-set", "create-catalog-item"} THEN TRUE
       ELSE UNCHANGED createdUpdateSet
    /\ IF name = "set-application-scope" THEN TRUE ELSE UNCHANGED lastScope
    /\ IF name = "update-business-rule" THEN TRUE ELSE updatedFields' = {}
    /\ UNCHANGED <<policyActionVars, callerVars, selectVars>>

\* a POST that created an update set is among the requests
CreatesUpdateSet(requests) ==
    \E i \in 1..Len(requests) :
        /\ requests[i].method = "POST"
        /\ requests[i].table = "sys_update_set"
        /\ requests[i].outcome = "ok"

(***************************************************************************)
(* Tool handlers                                                           *)
(***************************************************************************)
\* set-current-update-set
setCurrentUpdateSet ==
    \/ \* no argument object: the destructuring throws into the outer catch
       /\ getServiceNowApi
       /\ Invoked("set-current-update-set", FALSE, JsUndefined, EmptyObj, EmptyObj)
       /\ sent' = <<>>
       /\ result' = Report("failed_set_current", JsUndefined)
       /\ warned' = FALSE
       /\ UNCHANGED <<currentUpdateSetId, apiCurrentUpdateSetId, defaultScope,
                      selected, selectFailed>>
    \/ \E update_set_id \in IdArgs, user \in GetOutcomes, pref \in GetOutcomes,
          write \in WriteOutcomes :
          LET r == ApiSetCurrentUpdateSet(apiCurrentUpdateSetId, update_set_id,
                                          user, pref, write)
          IN  /\ getServiceNowApi
              /\ Invoked("set-current-update-set", TRUE, update_set_id, EmptyObj, EmptyObj)
              /\ currentUpdateSetId' =
                    CtrlIdAfterSetCurrent(currentUpdateSetId, update_set_id, r.threw)
              /\ apiCurrentUpdateSetId' = r.id
              /\ sent' = r.sent
              /\ result' = SetCurrentReport(r.threw, update_set_id)
              /\ warned' = r.threw
              /\ selected' = update_set_id
              /\ selectFailed' = r.threw
              /\ UNCHANGED defaultScope

\* get-current-update-set
getCurrentUpdateSet ==
    \E o \in GetOutcomes :
        /\ IF Truthy(currentUpdateSetId) THEN getServiceNowApi ELSE UNCHANGED serviceNowApi
        /\ Invoked("get-current-update-set", FALSE, JsUndefined, EmptyObj, EmptyObj)
        /\ sent' = GetCurrentRequests(currentUpdateSetId, o)
        /\ result' = GetCurrentReport(currentUpdateSetId, o)
        /\ warned' = FALSE
        /\ UNCHANGED <<currentUpdateSetId, apiCurrentUpdateSetId, defaultScope,
                       selected, selectFailed>>

\* create-record
createRecord ==
    \E table \in {"incident", JsUndefined}, given \in BOOLEAN,
       fields \in CallerPayloads, o \in WriteOutcomes :
        LET recordData == addUpdateSetToRecord(currentUpdateSetId, fields)
            r == ApiCreateRecord(apiCurrentUpdateSetId, table, recordData, o)
            valid == Truthy(table) /\ given
        IN  /\ getServiceNowApi
            /\ Invoked("create-record", given, table, IF given THEN fields ELSE EmptyObj,
                       IF valid THEN ArgumentObjectAfter(fields, r.data)
                       ELSE IF given THEN fields ELSE EmptyObj)
            /\ sent' = IF valid THEN r.sent ELSE <<>>
            /\ result' = IF valid /\ ~r.threw THEN Report("created", table)
                         ELSE Report("failed_create_record", table)
            /\ warned' = FALSE
            /\ UNCHANGED <<currentUpdateSetId, apiCurrentUpdateSetId, defaultScope,
                           selected, selectFailed>>

\* create-script-include
createScriptInclude ==
    \E application_scope \in {JsUndefined, "x_app"}, active \in {JsUndefined, JsTrue, JsFalse},
       o \in WriteOutcomes :
        LET params == [name |-> "Foo", script |-> "...", description |-> JsUndefined,
                       application_scope |-> application_scope, api_name |-> JsUndefined,
                       access |-> JsUndefined, active |-> active]
            r == ApiCreateScriptInclude(apiCurrentUpdateSetId, defaultScope, params, o)
        IN  /\ getServiceNowApi
            /\ Invoked("create-script-include", TRUE, JsUndefined, EmptyObj, EmptyObj)
            /\ sent' = r.sent
            /\ result' = IF r.threw THEN Report("failed_create_script_include", "Foo")
                         ELSE Report("created_script_include", "Foo")
            /\ warned' = FALSE
            /\ UNCHANGED <<currentUpdateSetId, apiCurrentUpdateSetId, defaultScope,
                           selected, selectFailed>>

\* create-flow
createFlow ==
    \E scope \in {JsUndefined, "x_app"}, active \in {JsUndefined, JsFalse}, o \in WriteOutcomes :
        LET params == [name |-> "Flow", description |-> JsUndefined, scope |-> scope,
                       active |-> active]
            r == ApiCreateFlow(apiCurrentUpdateSetId, defaultScope, params, o)
        IN  /\ getServiceNowApi
            /\ Invoked("create-flow", TRUE, JsUndefined, EmptyObj, EmptyObj)
            /\ sent' = r.sent
            /\ result' = IF r.threw THEN Report("failed_create_flow", "Flow")
                         ELSE Report("created_flow", "Flow")
            /\ warned' = FALSE
            /\ UNCHANGED <<currentUpdateSetId, apiCurrentUpdateSetId, defaultScope,
                           selected, selectFailed>>

\* create-variable-set
createVariableSet ==
    \E description \in {JsUndefined, "text"}, o \in WriteOutcomes :
        LET data == [variable_set |-> "vs", title |-> "VS",
                     description |-> OrElse(description, ""),
                     type |-> "one_to_many", one_to_many_type |-> "slushbucket",
                     cat_item |-> "cat1", order |-> "100"]
            r == ApiCreateRecord(apiCurrentUpdateSetId, "item_option_new_set", data, o)
        IN  /\ getServiceNowApi
            /\ Invoked("create-variable-set", TRUE, JsUndefined, EmptyObj, EmptyObj)
            /\ sent' = r.sent
            /\ result' = IF r.threw THEN Report("failed_create_variable_set", "vs")
                         ELSE Report("created_variable_set", "vs")
            /\ warned' = FALSE
            /\ UNCHANGED <<currentUpdateSetId, apiCurrentUpdateSetId, defaultScope,
                           selected, selectFailed>>

\* SimpleServiceNowMCPServer.createCatalogItem, after the name was extracted:
\* update set, category (found, created, or the first active one), catalog item
CatalogItemRun(id, scope, us, cat, newCat, anyCat, item) ==
    LET usReq == ApiCreateUpdateSet(id, scope, "Catalog Item Creation - DATE",
                                    "Created catalog item: Item", us)
        catReq == ApiGetRecords("sc_category", "title=General", cat)
        newCatReq == ApiCreateRecord(id, "sc_category",
                                     [title |-> "General",
                                      description |-> "Category for General items",
                                      active |-> JsTrue], newCat)
        anyCatReq == ApiGetRecords("sc_category", "active=true", anyCat)
        itemReq == ApiCreateRecord(id, "sc_cat_item",
                                   [name |-> "Item", short_description |-> "Item",
                                    description |-> "Catalog item for Item",
                                    category |-> "cat1", active |-> JsTrue,
                                    template |-> "", workflow |-> ""], item)
        fallback == cat = "error" \/ (cat = "zero" /\ newCat = "error")
        lookup == catReq.sent
                  \o (IF cat = "zero" THEN newCatReq.sent ELSE <<>>)
                  \o (IF fallback THEN anyCatReq.sent ELSE <<>>)
        noCategory == fallback /\ anyCat # "one"
    IN  IF us = "error" THEN [sent |-> usReq.sent, threw |-> TRUE, id |-> usReq.id]
        ELSE IF noCategory THEN [sent |-> usReq.sent \o lookup, threw |-> TRUE, id |-> usReq.id]
        ELSE [sent |-> usReq.sent \o lookup \o itemReq.sent, threw |-> itemReq.threw,
              id |-> usReq.id]

\* create-catalog-item
createCatalogItem ==
    \/ \* the command names no item: fails before the client is asked for
       /\ Invoked("create-catalog-item", TRUE, JsUndefined, EmptyObj, EmptyObj)
       /\ sent' = <<>>
       /\ result' = Report("failed_create_catalog_item", JsUndefined)
       /\ warned' = FALSE
       /\ UNCHANGED createdUpdateSet
       /\ UNCHANGED <<serviceNowApi, currentUpdateSetId, apiCurrentUpdateSetId,
                      defaultScope, selected, selectFailed>>
    \/ \E us \in WriteOutcomes, cat \in GetOutcomes, newCat \in WriteOutcomes,
          anyCat \in GetOutcomes, item \in WriteOutcomes :
          LET r == CatalogItemRun(apiCurrentUpdateSetId, defaultScope,
                                  us, cat, newCat, anyCat, item)
          IN  /\ getServiceNowApi
              /\ Invoked("create-catalog-item", TRUE, JsUndefined, EmptyObj, EmptyObj)
              /\ sent' = r.sent
              /\ result' = IF r.threw THEN Report("failed_create_catalog_item", "Item")
                           ELSE Report("created_catalog_item", "Item")
              /\ warned' = FALSE
              /\ apiCurrentUpdateSetId' = r.id
              /\ createdUpdateSet' = (createdUpdateSet \/ CreatesUpdateSet(r.sent))
              /\ UNCHANGED <<currentUpdateSetId, defaultScope, selected, selectFailed>>

\* create-update-set
createUpdateSet ==
    \E name \in {"Feature X", "Fix"}, o \in WriteOutcomes :
        LET r == ApiCreateUpdateSet(apiCurrentUpdateSetId, defaultScope, name, "desc", o)
        IN  /\ getServiceNowApi
            /\ Invoked("create-update-set", TRUE, name, EmptyObj, EmptyObj)
            /\ createdUpdateSet' = (createdUpdateSet \/ CreatesUpdateSet(r.sent))
            /\ sent' = r.sent
            /\ result' = IF r.threw THEN Report("failed_create_update_set", name)
                         ELSE Report("created_update_set", "usCreated")
            /\ warned' = FALSE
            /\ apiCurrentUpdateSetId' = r.id
            /\ UNCHANGED <<currentUpdateSetId, defaultScope, selected, selectFailed>>

\* set-application-scope
setApplicationScope ==
    \E scope \in Scopes :
        /\ getServiceNowApi
        /\ Invoked("set-application-scope", TRUE, JsUndefined, EmptyObj, EmptyObj)
        /\ defaultScope' = ApiSetApplicationScope(scope)
        /\ lastScope' = scope
        /\ sent' = <<>>
        /\ result' = Report("scope_set", scope)
        /\ warned' = FALSE
        /\ UNCHANGED <<currentUpdateSetId, apiCurrentUpdateSetId, selected, selectFailed>>

\* query-records
queryRecords ==
    \E o \in GetOutcomes :
        LET r == ApiGetRecords("incident", "active=true^ORDERBYDESCsys_created_on", o)
        IN  /\ getServiceNowApi
            /\ Invoked("query-records", TRUE, JsUndefined, EmptyObj, EmptyObj)
            /\ sent' = r.sent
            /\ result' = IF r.threw THEN Report("failed_query", "incident")
                         ELSE Report("found", "incident")
            /\ warned' = FALSE
            /\ UNCHANGED <<currentUpdateSetId, apiCurrentUpdateSetId, defaultScope,
                           selected, selectFailed>>

\* SimpleServiceNowMCPServer.updateBusinessRule, the fields copied from the arguments
UpdateData(name, when) ==
    LET withName == IF name # JsUndefined THEN Put(EmptyObj, "name", name) ELSE EmptyObj
    IN  IF when # JsUndefined THEN Put(withName, "when", when) ELSE withName

ValidWhenValues == {"before", "after", "async", "display"}

\* Object.keys(updateData).filter(key => key !== 'sys_update_set')
UpdatedFieldsUnfiltered(updateData) == DOMAIN updateData

UpdatedFields(updateData) == (DOMAIN updateData) \ {TrackingField}

\* update-business-rule
updateBusinessRule ==
    \E sys_id \in {JsUndefined, "br1"}, name \in {JsUndefined, "n"},
       when \in {JsUndefined, "before", "bogus"}, found \in GetOutcomes, o \in WriteOutcomes :
        LET lookup == ApiGetRecords("sys_script", "sys_id=" \o sys_id, found)
            recordData == addUpdateSetToRecord(currentUpdateSetId, UpdateData(name, when))
            put == ApiUpdateRecord(apiCurrentUpdateSetId, "sys_script", sys_id, recordData, o)
            badWhen == Truthy(when) /\ when \notin ValidWhenValues
            requests == IF ~Truthy(sys_id) THEN <<>>
                        ELSE IF found # "one" \/ badWhen THEN lookup.sent
                        ELSE lookup.sent \o put.sent
            failed == ~Truthy(sys_id) \/ found # "one" \/ badWhen \/ put.threw
        IN  /\ getServiceNowApi
            /\ Invoked("update-business-rule", TRUE, sys_id, UpdateData(name, when),
                       IF Truthy(sys_id) /\ found = "one" /\ ~badWhen
                       THEN ArgumentObjectAfter(UpdateData(name, when), recordData)
                       ELSE UpdateData(name, when))
            /\ sent' = requests
            /\ result' = IF failed THEN Report("failed_update_business_rule", sys_id)
                         ELSE Report("updated_business_rule", sys_id)
            /\ updatedFields' =
                   IF failed THEN {}
                   ELSE UpdatedFields(ArgumentObjectAfter(UpdateData(name, when), recordData))
            /\ warned' = FALSE
            /\ UNCHANGED <<currentUpdateSetId, apiCurrentUpdateSetId, defaultScope,
                           selected, selectFailed>>

\* a tool name the switch does not know
unknownTool ==
    /\ Invoked("no-such-tool", TRUE, JsUndefined, EmptyObj, EmptyObj)
    /\ sent' = <<>>
    /\ result' = UnknownToolResult("no-such-tool")
    /\ warned' = FALSE
    /\ UNCHANGED <<serviceNowApi, currentUpdateSetId, apiCurrentUpdateSetId, defaultScope,
                   selected, selectFailed>>

Next ==
    \/ setCurrentUpdateSet
    \/ getCurrentUpdateSet
    \/ createRecord
    \/ createScriptInclude
    \/ createFlow
    \/ createVariableSet
    \/ createCatalogItem
    \/ createUpdateSet
    \/ setApplicationScope
    \/ queryRecords
    \/ updateBusinessRule
    \/ unknownTool

Spec == Init /\ [][Next]_vars

(***************************************************************************)
(* Concurrent invocations of getServiceNowApi                              *)
(*                                                                         *)
(* The handler is async: an invocation runs until its first await, and     *)
(* other invocations may run before it resumes.  getServiceNowApi awaits   *)
(* authenticate() after it has stored the client it built.                 *)
(***************************************************************************)

\* the n-th ServiceNowApiService constructed in the session
BuiltInstance(n) == IF n = 1 THEN "instance" ELSE "instance" \o ToString(n)

\* getServiceNowApi: this.serviceNowApi once the constructor has returned,
\* before authenticate() is awaited
ApiFieldStoredAfterAwait(current, built) == current

ApiFieldOnBuild(current, built) == built

\* getServiceNowApi, no client yet: construct, store, call authenticate(), await
EnterBuild(p) ==
    /\ pc[p] = "idle"
    /\ calls[p] < MaxCalls
    /\ ~Truthy(serviceNowApi)
    /\ builds' = builds + 1
    /\ auths' = auths + 1
    /\ serviceNowApi' = ApiFieldOnBuild(serviceNowApi, BuiltInstance(builds + 1))
    /\ apiCurrentUpdateSetId' = JsUndefined
    /\ got' = [got EXCEPT ![p] = BuiltInstance(builds + 1)]
    /\ pc' = [pc EXCEPT ![p] = "authenticating"]
    /\ UNCHANGED <<calls, currentUpdateSetId, defaultScope, tool, argGiven, argId, argFields,
                   callerFields, sent, result, warned, selected, prevSelected, selectFailed,
                   createdUpdateSet, lastScope, updatedFields,
                   policyActionVars, selectVars>>

\* getServiceNowApi, client present: return it
EnterMemoized(p) ==
    /\ pc[p] = "idle"
    /\ calls[p] < MaxCalls
    /\ Truthy(serviceNowApi)
    /\ got' = [got EXCEPT ![p] = serviceNowApi]
    /\ pc' = [pc EXCEPT ![p] = "returned"]
    /\ UNCHANGED <<calls, builds, auths, sessionVars, policyActionVars, selectVars>>

\* getServiceNowApi resumes after authenticate() and returns this.serviceNowApi
ResumeAfterAuthenticate(p) ==
    /\ pc[p] = "authenticating"
    /\ got' = [got EXCEPT ![p] = serviceNowApi]
    /\ pc' = [pc EXCEPT ![p] = "returned"]
    /\ UNCHANGED <<calls, builds, auths, sessionVars, policyActionVars, selectVars>>

\* the rest of the invocation, on the client it was handed:
\* set-current-update-set stores the id in the controller and in that client
UseSelecting(p) ==
    /\ pc[p] = "returned"
    /\ \E id \in UpdateSetIds :
           /\ currentUpdateSetId' = id
           /\ apiCurrentUpdateSetId' =
                  IF got[p] = serviceNowApi THEN id ELSE apiCurrentUpdateSetId
    /\ calls' = [calls EXCEPT ![p] = calls[p] + 1]
    /\ pc' = [pc EXCEPT ![p] = "idle"]
    /\ UNCHANGED <<got, builds, auths, serviceNowApi, defaultScope, tool, argGiven, argId,
                   argFields, callerFields, sent, result, warned, selected, prevSelected,
                   selectFailed, createdUpdateSet, lastScope, updatedFields,
                   policyActionVars, selectVars>>

\* the rest of the invocation for a tool that stores nothing
UseOther(p) ==
    /\ pc[p] = "returned"
    /\ calls' = [calls EXCEPT ![p] = calls[p] + 1]
    /\ pc' = [pc EXCEPT ![p] = "idle"]
    /\ UNCHANGED <<got, builds, auths, sessionVars, policyActionVars, selectVars>>

NextClients ==
    \/ \E p \in Callers : EnterBuild(p)
    \/ \E p \in Callers : EnterMemoized(p)
    \/ \E p \in Callers : ResumeAfterAuthenticate(p)
    \/ \E p \in Callers : UseSelecting(p)
    \/ \E p \in Callers : UseOther(p)

SpecClients == Init /\ [][NextClients]_vars

(***************************************************************************)
(* create-catalog-ui-policy-action, over every combination of its          *)
(* arguments, against every content of the two remote tables it reads      *)
(***************************************************************************)

OptionalArguments ==
    [order : {JsUndefined, JsNumber(0), JsNumber(5)},
     mandatory : {JsUndefined, "true"},
     visible : {JsUndefined, "false"},
     read_only : {JsUndefined, "true"},
     value_action : {JsUndefined, "leave_alone", "set_value", "clear_value"},
     value : {JsUndefined, "v"},
     field_message_type : {JsUndefined, "info"},
     field_message : {JsUndefined, "msg"}]

\* the params object the controller hands to the client
PolicyActionParams(variable_name, opt) ==
    [catalog_ui_policy |-> "pol1",
     variable_name |-> variable_name,
     order |-> opt.order,
     mandatory |-> opt.mandatory,
     visible |-> opt.visible,
     read_only |-> opt.read_only,
     value_action |-> opt.value_action,
     value |-> opt.value,
     field_message_type |-> opt.field_message_type,
     field_message |-> opt.field_message]

\* a session in which an update set may have been selected, a remote instance
\* holding some policy row and some variables, and the arguments of the call
InitPolicyAction ==
    /\ \E id \in {JsUndefined, IdOf(1)} :
           /\ currentUpdateSetId = (IF id = JsUndefined THEN JsNull ELSE id)
           /\ apiCurrentUpdateSetId = id
           /\ selected = id
           /\ serviceNowApi = (IF id = JsUndefined THEN JsNull ELSE "instance")
    /\ policyRows \in PolicyTables
    /\ itemVariables \in VariableTables
    /\ defaultScope = ConfiguredScope
    /\ tool = "none"
    /\ argGiven = FALSE
    /\ argId = JsUndefined
    /\ \E variable_name \in VariableNames, opt \in OptionalArguments :
           argFields = PolicyActionParams(variable_name, opt)
    /\ callerFields = EmptyObj
    /\ sent = <<>>
    /\ result = Report("none", JsUndefined)
    /\ warned = FALSE
    /\ prevSelected = JsUndefined
    /\ selectFailed = FALSE
    /\ createdUpdateSet = FALSE
    /\ lastScope = JsUndefined
    /\ updatedFields = {}
    /\ failure = NoFailure
    /\ loggedNames = <<>>
    /\ pc = [p \in Callers |-> "idle"]
    /\ got = [p \in Callers |-> JsNull]
    /\ calls = [p \in Callers |-> 0]
    /\ builds = 0
    /\ auths = 0
    /\ NoneInProgress

\* create-catalog-ui-policy-action
createCatalogUIPolicyAction ==
    \E failAt \in 0..3 :
        LET params == argFields
            r == ApiCreateCatalogUIPolicyAction(apiCurrentUpdateSetId, params, policyRows,
                                                itemVariables, failAt)
        IN  /\ getServiceNowApi
            /\ tool' = "create-catalog-ui-policy-action"
            /\ argGiven' = TRUE
            /\ argId' = params.catalog_ui_policy
            /\ argFields' = params
            /\ callerFields' = params
            /\ prevSelected' = selected
            /\ sent' = r.sent
            /\ failure' = r.failure
            /\ loggedNames' = r.logged
            /\ result' = IF r.threw
                         THEN Report("failed_create_catalog_ui_policy_action", r.failure.message)
                         ELSE Report("created_catalog_ui_policy_action", params.variable_name)
            /\ warned' = FALSE
            /\ UNCHANGED <<currentUpdateSetId, apiCurrentUpdateSetId, defaultScope, selected,
                           selectFailed, createdUpdateSet, lastScope, updatedFields,
                           policyRows, itemVariables, callerVars, selectVars>>

NextPolicyAction == createCatalogUIPolicyAction

SpecPolicyAction == InitPolicyAction /\ [][NextPolicyAction]_vars

(***************************************************************************)
(* create-scheduled-job and create-catalog-ui-policy, over every           *)
(* combination of their boolean flags                                      *)
(***************************************************************************)

FlagValues == {JsUndefined, JsTrue, JsFalse}

FlagArguments ==
    [active : FlagValues,
     conditional : FlagValues,
     applies_on_catalog_item_view : FlagValues,
     applies_on_requested_items : FlagValues,
     applies_on_catalog_tasks : FlagValues,
     applies_on_target_record : FlagValues,
     on_load : FlagValues,
     reverse_if_false : FlagValues]

\* a session in which an update set may have been selected, and the flags of the call
InitFlags ==
    /\ \E id \in {JsUndefined, IdOf(1)} :
           /\ currentUpdateSetId = (IF id = JsUndefined THEN JsNull ELSE id)
           /\ apiCurrentUpdateSetId = id
           /\ selected = id
           /\ serviceNowApi = (IF id = JsUndefined THEN JsNull ELSE "instance")
    /\ argFields \in FlagArguments
    /\ policyRows = <<>>
    /\ itemVariables = <<>>
    /\ defaultScope = ConfiguredScope
    /\ tool = "none"
    /\ argGiven = FALSE
    /\ argId = JsUndefined
    /\ callerFields = EmptyObj
    /\ sent = <<>>
    /\ result = Report("none", JsUndefined)
    /\ warned = FALSE
    /\ prevSelected = JsUndefined
    /\ selectFailed = FALSE
    /\ createdUpdateSet = FALSE
    /\ lastScope = JsUndefined
    /\ updatedFields = {}
    /\ failure = NoFailure
    /\ loggedNames = <<>>
    /\ pc = [p \in Callers |-> "idle"]
    /\ got = [p \in Callers |-> JsNull]
    /\ calls = [p \in Callers |-> 0]
    /\ builds = 0
    /\ auths = 0
    /\ NoneInProgress

\* create-scheduled-job
createScheduledJob ==
    \E o \in WriteOutcomes :
        LET r == ApiCreateScheduledJob(apiCurrentUpdateSetId, argFields, o)
        IN  /\ getServiceNowApi
            /\ Invoked("create-scheduled-job", TRUE, JsUndefined, argFields, argFields)
            /\ sent' = r.sent
            /\ result' = IF r.threw THEN Report("failed_create_scheduled_job", "Job")
                         ELSE Report("created_scheduled_job", "Job")
            /\ warned' = FALSE
            /\ UNCHANGED <<currentUpdateSetId, apiCurrentUpdateSetId, defaultScope,
                           selected, selectFailed>>

\* create-catalog-ui-policy
createCatalogUIPolicy ==
    \E o \in WriteOutcomes :
        LET r == ApiCreateCatalogUIPolicy(apiCurrentUpdateSetId, argFields, o)
        IN  /\ getServiceNowApi
            /\ Invoked("create-catalog-ui-policy", TRUE, JsUndefined, argFields, argFields)
            /\ sent' = r.sent
            /\ result' = IF r.threw THEN Report("failed_create_catalog_ui_policy", "Policy")
                         ELSE Report("created_catalog_ui_policy", "Policy")
            /\ warned' = FALSE
            /\ UNCHANGED <<currentUpdateSetId, apiCurrentUpdateSetId, defaultScope,
                           selected, selectFailed>>

NextFlags ==
    \/ createScheduledJob
    \/ createCatalogUIPolicy

SpecFlags == InitFlags /\ [][NextFlags]_vars

(***************************************************************************)
(* implement-invoice-status-inquiry                                        *)
(***************************************************************************)

\* n components of one kind, each created by one POST on the table; a choice
\* variable also posts its choices
ComponentsOf(kind, table, n) ==
    [i \in 1..n |-> [kind |-> kind, table |-> table, name |-> kind \o ToString(i),
                     choices |-> IF kind = "variable" /\ i = n THEN 4 ELSE 0]]

\* fields, groups, the record producer, variables, business rules, client
\* scripts and UI policies, in the order the handler creates them
InvoiceComponents ==
    ComponentsOf("table_field", "sys_dictionary", 9)
        \o ComponentsOf("group", "sys_user_group", 5)
        \o ComponentsOf("record_producer", "sc_cat_item_producer", 1)
        \o ComponentsOf("variable", "item_option_new", 6)
        \o ComponentsOf("business_rule", "sys_script", 3)
        \o ComponentsOf("client_script", "sys_script_client", 3)
        \o ComponentsOf("ui_policy", "sys_ui_policy", 2)

ComponentKinds == {InvoiceComponents[i].kind : i \in 1..Len(InvoiceComponents)}

\* if (!args.dry_run) await this.createX(...)
CreatesComponentsAlways(dry_run) == TRUE

CreatesComponents(dry_run) == ~Truthy(dry_run)

\* the requests of one sub-handler; every sub-handler catches its own failure
ComponentRequests(ctrlId, apiId, c, o) ==
    LET created == ApiCreateRecord(apiId, c.table,
                                   addUpdateSetToRecord(ctrlId, [name |-> c.name]), o)
        choice == ApiCreateRecord(apiId, "question_choice",
                                  addUpdateSetToRecord(ctrlId, [question |-> c.name]), "ok")
    IN  IF created.threw THEN created.sent
        ELSE created.sent \o [k \in 1..c.choices |-> choice.sent[1]]

\* the components the run reaches: a failed sub-handler returns a text result,
\* which the run does not look at
ComponentsReachedUntilFailure(components, failing) ==
    IF \E i \in 1..Len(components) : components[i].kind \in failing
    THEN CHOOSE i \in 1..Len(components) :
             /\ components[i].kind \in failing
             /\ \A j \in 1..(i - 1) : components[j].kind \notin failing
    ELSE Len(components)

ComponentsReached(components, failing) == Len(components)

RECURSIVE InvoiceRequests(_, _, _, _, _)
InvoiceRequests(ctrlId, apiId, components, failing, n) ==
    IF n = 0 THEN <<>>
    ELSE InvoiceRequests(ctrlId, apiId, components, failing, n - 1)
             \o ComponentRequests(ctrlId, apiId, components[n],
                                  IF components[n].kind \in failing THEN "error" ELSE "ok")

\* the text result: the lines with a check mark, and the summary
InvoiceReport(dry_run, components, reached) ==
    [kind |-> IF reached < Len(components) THEN "failed_implement_invoice"
              ELSE IF Truthy(dry_run) THEN "invoice_preview"
              ELSE "invoice_implemented",
     id |-> [i \in 1..reached |-> components[i].name]]

\* a session in which an update set may have been selected, and the argument of the call
InitInvoice ==
    /\ \E id \in {JsUndefined, IdOf(1)} :
           /\ currentUpdateSetId = (IF id = JsUndefined THEN JsNull ELSE id)
           /\ apiCurrentUpdateSetId = id
           /\ selected = id
           /\ serviceNowApi = (IF id = JsUndefined THEN JsNull ELSE "instance")
    /\ argFields \in [dry_run : {JsUndefined, JsTrue, JsFalse}]
    /\ policyRows = <<>>
    /\ itemVariables = <<>>
    /\ defaultScope = ConfiguredScope
    /\ tool = "none"
    /\ argGiven = FALSE
    /\ argId = JsUndefined
    /\ callerFields = EmptyObj
    /\ sent = <<>>
    /\ result = Report("none", JsUndefined)
    /\ warned = FALSE
    /\ prevSelected = JsUndefined
    /\ selectFailed = FALSE
    /\ createdUpdateSet = FALSE
    /\ lastScope = JsUndefined
    /\ updatedFields = {}
    /\ failure = NoFailure
    /\ loggedNames = <<>>
    /\ pc = [p \in Callers |-> "idle"]
    /\ got = [p \in Callers |-> JsNull]
    /\ calls = [p \in Callers |-> 0]
    /\ builds = 0
    /\ auths = 0
    /\ NoneInProgress

\* implement-invoice-status-inquiry
implementInvoiceStatusInquiry ==
    \E failing \in SUBSET ComponentKinds :
        LET dry_run == argFields.dry_run
            reached == IF CreatesComponents(dry_run)
                       THEN ComponentsReached(InvoiceComponents, failing)
                       ELSE Len(InvoiceComponents)
        IN  /\ getServiceNowApi
            /\ Invoked("implement-invoice-status-inquiry", TRUE, JsUndefined,
                       argFields, argFields)
            /\ sent' = IF CreatesComponents(dry_run)
                       THEN InvoiceRequests(currentUpdateSetId, apiCurrentUpdateSetId,
                                            InvoiceComponents, failing, reached)
                       ELSE <<>>
            /\ result' = InvoiceReport(dry_run, InvoiceComponents, reached)
            /\ warned' = FALSE
            /\ UNCHANGED <<currentUpdateSetId, apiCurrentUpdateSetId, defaultScope,
                           selected, selectFailed>>

NextInvoice == implementInvoiceStatusInquiry

SpecInvoice == InitInvoice /\ [][NextInvoice]_vars

(***************************************************************************)
(* create-variable and create-business-rule, over their arguments          *)
(***************************************************************************)

ValidatedArguments ==
    [name : {JsUndefined, "v"},
     question_text : {JsUndefined, "Q"},
     type : {JsUndefined, "string", "reference", "choice"},
     catalog_item : {JsUndefined, "cat1"},
     reference_table : {JsUndefined, "sys_user"},
     choices : {JsUndefined, "low,high"},
     table : {JsUndefined, "incident"},
     when : {JsUndefined, "before", "bogus"},
     script : {JsUndefined, "function(current, previous) {}"}]

\* args.choices.split(',')
ChoiceList(choices) == IF choices = "low,high" THEN <<"low", "high">> ELSE <<choices>>

\* variableTypeMap[args.type] || '6'
VariableType(type) ==
    IF type = "choice" THEN "3" ELSE IF type = "reference" THEN "8" ELSE "6"

\* createVariable: the error its validation throws, "none" if the arguments pass
VariableArgsErrorRequiredOnly(args) ==
    IF ~Truthy(args.name) \/ ~Truthy(args.question_text) \/ ~Truthy(args.type)
           \/ ~Truthy(args.catalog_item)
    THEN "missing_required"
    ELSE "none"

VariableArgsError(args) ==
    IF ~Truthy(args.name) \/ ~Truthy(args.question_text) \/ ~Truthy(args.type)
           \/ ~Truthy(args.catalog_item)
    THEN "missing_required"
    ELSE IF args.type = "reference" /\ ~Truthy(args.reference_table)
    THEN "reference_table_required"
    ELSE IF args.type = "choice" /\ ~Truthy(args.choices)
    THEN "choices_required"
    ELSE "none"

\* createVariable: variableData
VariableData(args) ==
    LET base == [name |-> args.name, question_text |-> args.question_text,
                 type |-> VariableType(args.type), mandatory |-> JsFalse,
                 cat_item |-> args.catalog_item, order |-> JsNumber(100), active |-> JsTrue]
        d1 == PutIf(args.type = "reference" /\ Truthy(args.reference_table), base,
                    "reference", args.reference_table)
        d2 == PutIf(args.type = "reference" /\ Truthy(args.reference_table), d1,
                    "reference_qual", "")
    IN  PutIf(args.type = "string", d2, "max_length", JsNumber(255))

\* createVariable: the variable, then one question_choice per choice.
\* failAt is the request the transport fails on (0: none).
VariableRequests(ctrlId, apiId, args, failAt) ==
    LET created == ApiCreateRecord(apiId, "item_option_new",
                                   addUpdateSetToRecord(ctrlId, VariableData(args)),
                                   IF failAt = 1 THEN "error" ELSE "ok")
        list == IF args.type = "choice" /\ Truthy(args.choices)
                THEN ChoiceList(args.choices) ELSE <<>>
        Choice(i) == ApiCreateRecord(apiId, "question_choice",
                                     addUpdateSetToRecord(ctrlId,
                                         [question |-> "var1", text |-> list[i],
                                          value |-> list[i], order |-> JsNumber(i * 100),
                                          inactive |-> JsFalse]),
                                     IF failAt = i + 1 THEN "error" ELSE "ok").sent[1]
        n == IF failAt \in 2..(Len(list) + 1) THEN failAt - 1 ELSE Len(list)
    IN  IF VariableArgsError(args) # "none" THEN <<>>
        ELSE IF created.threw THEN created.sent
        ELSE created.sent \o [i \in 1..n |-> Choice(i)]

\* createBusinessRule: the error its validation throws, "none" if the arguments pass
BusinessRuleArgsError(args) ==
    IF ~Truthy(args.name) \/ ~Truthy(args.table) \/ ~Truthy(args.when) \/ ~Truthy(args.script)
    THEN "missing_required"
    ELSE IF args.when \notin ValidWhenValues
    THEN "invalid_when"
    ELSE "none"

\* createBusinessRule: recordData
BusinessRuleData(args) ==
    [name |-> args.name, table |-> args.table, when |-> args.when,
     insert |-> JsTrue, update |-> JsTrue, delete |-> JsFalse, query |-> JsFalse,
     script |-> args.script, description |-> "", order |-> JsNumber(100), condition |-> "",
     filter_condition |-> "", advanced |-> JsFalse, active |-> JsTrue, role_conditions |-> ""]

\* a session in which an update set may have been selected, and the arguments of the call
InitValidation ==
    /\ \E id \in {JsUndefined, IdOf(1)} :
           /\ currentUpdateSetId = (IF id = JsUndefined THEN JsNull ELSE id)
           /\ apiCurrentUpdateSetId = id
           /\ selected = id
           /\ serviceNowApi = (IF id = JsUndefined THEN JsNull ELSE "instance")
    /\ argFields \in ValidatedArguments
    /\ policyRows = <<>>
    /\ itemVariables = <<>>
    /\ defaultScope = ConfiguredScope
    /\ tool = "none"
    /\ argGiven = FALSE
    /\ argId = JsUndefined
    /\ callerFields = EmptyObj
    /\ sent = <<>>
    /\ result = Report("none", JsUndefined)
    /\ warned = FALSE
    /\ prevSelected = JsUndefined
    /\ selectFailed = FALSE
    /\ createdUpdateSet = FALSE
    /\ lastScope = JsUndefined
    /\ updatedFields = {}
    /\ failure = NoFailure
    /\ loggedNames = <<>>
    /\ pc = [p \in Callers |-> "idle"]
    /\ got = [p \in Callers |-> JsNull]
    /\ calls = [p \in Callers |-> 0]
    /\ builds = 0
    /\ auths = 0
    /\ NoneInProgress

\* create-variable
createVariable ==
    \E failAt \in 0..3 :
        LET requests == VariableRequests(currentUpdateSetId, apiCurrentUpdateSetId,
                                         argFields, failAt)
            failed == VariableArgsError(argFields) # "none"
                          \/ \E i \in 1..Len(requests) : requests[i].outcome = "error"
        IN  /\ getServiceNowApi
            /\ Invoked("create-variable", TRUE, JsUndefined, argFields, argFields)
            /\ sent' = requests
            /\ result' = IF failed
                         THEN Report("failed_create_variable", VariableArgsError(argFields))
                         ELSE Report("created_variable", argFields.name)
            /\ warned' = FALSE
            /\ UNCHANGED <<currentUpdateSetId, apiCurrentUpdateSetId, defaultScope,
                           selected, selectFailed>>

\* create-business-rule
createBusinessRule ==
    \E o \in WriteOutcomes :
        LET error == BusinessRuleArgsError(argFields)
            r == ApiCreateRecord(apiCurrentUpdateSetId, "sys_script",
                                 addUpdateSetToRecord(currentUpdateSetId,
                                                      BusinessRuleData(argFields)), o)
        IN  /\ getServiceNowApi
            /\ Invoked("create-business-rule", TRUE, JsUndefined, argFields, argFields)
            /\ sent' = IF error # "none" THEN <<>> ELSE r.sent
            /\ result' = IF error # "none" \/ r.threw
                         THEN Report("failed_create_business_rule", error)
                         ELSE Report("created_business_rule", argFields.name)
            /\ warned' = FALSE
            /\ UNCHANGED <<currentUpdateSetId, apiCurrentUpdateSetId, defaultScope,
                           selected, selectFailed>>

NextValidation ==
    \/ createVariable
    \/ createBusinessRule

SpecValidation == InitValidation /\ [][NextValidation]_vars

(***************************************************************************)
(* Overlapping invocations.  Every handler is an async function: it runs   *)
(* until an await, and other invocations of the session run while it is    *)
(* suspended.  The client exists; each invocation is followed from one     *)
(* await to the next.                                                      *)
(***************************************************************************)

SelectJobs == {[tool |-> "set-current-update-set", id |-> s] : s \in UpdateSetIds}

CreationJobs == {[tool |-> t, id |-> JsUndefined] :
                    t \in {"create-record", "create-script-include"}}

Selecting(c) == job[c].tool = "set-current-update-set"

Pending(method, table, data) == Request(method, table, data, "pending", 0)

\* the answer to the request an invocation is waiting for
Answered(requests, o) ==
    [requests EXCEPT ![Len(requests)] =
        [@ EXCEPT !.outcome = HttpOf(o), !.rows = RowsOf(o)]]

\* the session before the invocations: nothing selected yet, or a completed
\* set-current-update-set(p)
InitSelect ==
    /\ serviceNowApi = "instance"
    /\ \E p \in UpdateSetIds \cup {JsUndefined} :
           /\ currentUpdateSetId = IF p = JsUndefined THEN JsNull ELSE p
           /\ apiCurrentUpdateSetId = p
           /\ selected = p
           /\ prevSelected = p
    /\ defaultScope = ConfiguredScope
    /\ tool = "none"
    /\ argGiven = FALSE
    /\ argId = JsUndefined
    /\ argFields = EmptyObj
    /\ callerFields = EmptyObj
    /\ sent = <<>>
    /\ result = Report("none", JsUndefined)
    /\ warned = FALSE
    /\ selectFailed = FALSE
    /\ createdUpdateSet = FALSE
    /\ lastScope = JsUndefined
    /\ updatedFields = {}
    /\ failure = NoFailure
    /\ loggedNames = <<>>
    /\ policyRows = <<>>
    /\ itemVariables = <<>>
    /\ pc = [p \in Callers |-> "idle"]
    /\ got = [p \in Callers |-> JsNull]
    /\ calls = [p \in Callers |-> 0]
    /\ builds = 0
    /\ auths = 0
    /\ job \in [Invocations -> SelectJobs \cup CreationJobs]
    /\ at = [c \in Invocations |-> "idle"]
    /\ wire = [c \in Invocations |-> <<>>]

\* what no step of these invocations touches
selectFrame == <<serviceNowApi, defaultScope, tool, argGiven, argId, argFields, callerFields,
                 sent, result, createdUpdateSet, lastScope, updatedFields,
                 policyActionVars, callerVars, job>>

\* the handler starts and awaits getServiceNowApi(), which returns the
\* memoized client
AwaitClient(c) ==
    /\ at[c] = "idle"
    /\ at' = [at EXCEPT ![c] = "returned"]
    /\ UNCHANGED <<currentUpdateSetId, apiCurrentUpdateSetId, selected, prevSelected,
                   selectFailed, warned, wire, selectFrame>>

\* SimpleServiceNowMCPServer.setCurrentUpdateSet, the controller's field when
\* the client's negotiation is called
CtrlIdStoredAfterNegotiation(ctrlId, update_set_id) == ctrlId

CtrlIdAtNegotiation(ctrlId, update_set_id) == update_set_id

\* set-current-update-set resumes with the client: stores the id in the
\* controller, calls the client's setCurrentUpdateSet, which issues the user
\* lookup and awaits it
SelectIssueUserLookup(c) ==
    /\ at[c] = "returned"
    /\ Selecting(c)
    /\ currentUpdateSetId' = CtrlIdAtNegotiation(currentUpdateSetId, job[c].id)
    /\ apiCurrentUpdateSetId' = ApiIdDuringSelect(apiCurrentUpdateSetId, job[c].id)
    /\ wire' = [wire EXCEPT ![c] =
                   Append(@, Pending("GET", "sys_user",
                                     [sysparm_query |-> "user_name=" \o Username]))]
    /\ at' = [at EXCEPT ![c] = "user"]
    /\ UNCHANGED <<selected, prevSelected, selectFailed, warned, selectFrame>>

\* the negotiation of invocation c ends: the client stores the id (after the
\* write, or in its catch block), the controller logs a warning if it threw
SelectEnds(c, threw) ==
    /\ apiCurrentUpdateSetId' =
           IF threw THEN ApiIdAfterFailedSelect(apiCurrentUpdateSetId, job[c].id)
           ELSE job[c].id
    /\ prevSelected' = selected
    /\ selected' = job[c].id
    /\ selectFailed' = threw
    /\ warned' = threw
    /\ at' = [at EXCEPT ![c] = "done"]

\* the user lookup is answered: no row or an error ends the negotiation,
\* a row leads to the preference lookup
SelectUserAnswered(c) ==
    /\ at[c] = "user"
    /\ \E o \in GetOutcomes :
           IF o = "one"
           THEN /\ wire' = [wire EXCEPT ![c] =
                               Append(Answered(@, o),
                                      Pending("GET", "sys_user_preference",
                                              [sysparm_query |->
                                                  "user=user1^name=sys_update_set"]))]
                /\ at' = [at EXCEPT ![c] = "pref"]
                /\ UNCHANGED <<apiCurrentUpdateSetId, selected, prevSelected,
                               selectFailed, warned>>
           ELSE /\ wire' = [wire EXCEPT ![c] = Answered(@, o)]
                /\ SelectEnds(c, TRUE)
    /\ UNCHANGED <<currentUpdateSetId, selectFrame>>

\* the preference lookup is answered: PUT on the row found, POST of a new row
\* through the client's createRecord, or the end of the negotiation on an error
SelectPreferenceAnswered(c) ==
    /\ at[c] = "pref"
    /\ \E o \in GetOutcomes :
           IF o = "error"
           THEN /\ wire' = [wire EXCEPT ![c] = Answered(@, o)]
                /\ SelectEnds(c, TRUE)
           ELSE /\ wire' = [wire EXCEPT ![c] =
                               Append(Answered(@, o),
                                      IF o = "one"
                                      THEN Pending("PUT", "sys_user_preference",
                                                   [value |-> job[c].id])
                                      ELSE Pending("POST", "sys_user_preference",
                                                   ApiCreateRecordData(
                                                       apiCurrentUpdateSetId,
                                                       [user |-> "user1",
                                                        name |-> "sys_update_set",
                                                        value |-> job[c].id])))]
                /\ at' = [at EXCEPT ![c] = "write"]
                /\ UNCHANGED <<apiCurrentUpdateSetId, selected, prevSelected,
                               selectFailed, warned>>
    /\ UNCHANGED <<currentUpdateSetId, selectFrame>>

\* the write of the preference is answered
SelectWriteAnswered(c) ==
    /\ at[c] = "write"
    /\ \E o \in WriteOutcomes :
           /\ wire' = [wire EXCEPT ![c] = Answered(@, o)]
           /\ SelectEnds(c, o = "error")
    /\ UNCHANGED <<currentUpdateSetId, selectFrame>>

\* the payload create-record and create-script-include post
CreationPayload(name, ctrlId, apiId, scope) ==
    IF name = "create-record"
    THEN ApiCreateRecordData(apiId,
             addUpdateSetToRecord(ctrlId, [short_description |-> "d"]))
    ELSE ApiCreateScriptInclude(apiId, scope,
             [name |-> "Foo", script |-> "...", description |-> JsUndefined,
              application_scope |-> JsUndefined, api_name |-> JsUndefined,
              access |-> JsUndefined, active |-> JsUndefined], "ok").data

CreationTable(name) == IF name = "create-record" THEN "incident" ELSE "sys_script_include"

\* create-record / create-script-include resume with the client, build the
\* payload and post it
CreationIssuePost(c) ==
    /\ at[c] = "returned"
    /\ ~Selecting(c)
    /\ wire' = [wire EXCEPT ![c] =
                   Append(@, Pending("POST", CreationTable(job[c].tool),
                                     CreationPayload(job[c].tool, currentUpdateSetId,
                                                     apiCurrentUpdateSetId,
                                                     defaultScope)))]
    /\ at' = [at EXCEPT ![c] = "posting"]
    /\ UNCHANGED <<currentUpdateSetId, apiCurrentUpdateSetId, selected, prevSelected,
                   selectFailed, warned, selectFrame>>

\* the POST is answered and the handler returns its report
CreationAnswered(c) ==
    /\ at[c] = "posting"
    /\ \E o \in WriteOutcomes : wire' = [wire EXCEPT ![c] = Answered(@, o)]
    /\ at' = [at EXCEPT ![c] = "done"]
    /\ UNCHANGED <<currentUpdateSetId, apiCurrentUpdateSetId, selected, prevSelected,
                   selectFailed, warned, selectFrame>>

NextSelect ==
    \/ \E c \in Invocations : AwaitClient(c)
    \/ \E c \in Invocations : SelectIssueUserLookup(c)
    \/ \E c \in Invocations : SelectUserAnswered(c)
    \/ \E c \in Invocations : SelectPreferenceAnswered(c)
    \/ \E c \in Invocations : SelectWriteAnswered(c)
    \/ \E c \in Invocations : CreationIssuePost(c)
    \/ \E c \in Invocations : CreationAnswered(c)

SpecSelect == InitSelect /\ [][NextSelect]_vars

(***************************************************************************)
(* Properties                                                              *)
(***************************************************************************)
Posts == {i \in 1..Len(sent) : sent[i].method = "POST"}

\* the invocation reached its write request
Wrote(name) == tool = name /\ Len(sent) > 0 /\ sent[Len(sent)].method \in {"POST", "PUT"}

\* the caller's payload carried the tracking field
CallerSupplied == tool = "create-record" /\ TrackingField \in DOMAIN argFields

SelectDone == tool = "set-current-update-set" /\ argGiven

\* C1: once set-current-update-set(s) has completed with a non-empty s, every
\* record-creation POST issued after it (until the next set-current-update-set
\* completes), on the wrapped path as on the client-only path, carries
\* sys_update_set = s unless the caller's payload supplied the field.
C1_CreatesCarrySelectedId ==
    Truthy(prevSelected) =>
        \A i \in Posts : ~CallerSupplied => Get(sent[i].data, TrackingField) = prevSelected

C1_Witness ==
    /\ Wrote("create-catalog-item")
    /\ Cardinality(Posts) = 3
    /\ prevSelected = IdOf(2)
    /\ selectFailed

\* C2: when the client's setCurrentUpdateSet(s) has returned or thrown, the
\* client's tracked id is s; a createScriptInclude after a failed
\* set-current-update-set(s) posts sys_update_set = s.
C2_ClientTracksAfterSelect ==
    /\ SelectDone => apiCurrentUpdateSetId = argId
    /\ (tool = "create-script-include" /\ selectFailed /\ Truthy(selected)) =>
          \A i \in 1..Len(sent) : Get(sent[i].data, TrackingField) = selected

C2_Witness ==
    /\ SelectDone
    /\ selectFailed
    /\ Len(sent) = 3
    /\ sent[3].outcome = "error"
    /\ apiCurrentUpdateSetId = IdOf(1)

\* C3: after set-current-update-set(s), get-current-update-set reports the
\* tracked id s and never 'no update set is currently tracked', whatever the
\* fetch of the update set's record yields.
C3_GetCurrentReportsSelected ==
    (tool = "get-current-update-set" /\ Truthy(selected)) =>
        (result.kind # "none_tracked" /\ result.id = selected)

\* C4: a tracked id that is non-empty is never made empty, null or undefined
\* by a later invocation, in the controller and in the client.
C4_NeverBackToUntracked ==
    [][/\ Truthy(currentUpdateSetId) => Truthy(currentUpdateSetId')
       /\ Truthy(apiCurrentUpdateSetId) => Truthy(apiCurrentUpdateSetId')]_vars

\* C5 as claimed: whenever the caller's payload has the sys_update_set key,
\* whatever its value, that value is what is transmitted.
C5_AnySuppliedValueKept ==
    CallerSupplied =>
        /\ \A i \in Posts : Get(sent[i].data, TrackingField) = argFields[TrackingField]
        /\ Get(addUpdateSetToRecord(currentUpdateSetId, argFields), TrackingField)
              = argFields[TrackingField]
        /\ Get(ApiCreateRecordData(apiCurrentUpdateSetId, argFields), TrackingField)
              = argFields[TrackingField]

\* C5 as amended: a caller-supplied sys_update_set that is truthy (a non-empty
\* string) is transmitted unchanged by addUpdateSetToRecord and by the client's
\* createRecord, for every tracked id.
C5_TruthySuppliedValueKept ==
    (CallerSupplied /\ Truthy(argFields[TrackingField])) =>
        /\ \A i \in Posts : Get(sent[i].data, TrackingField) = argFields[TrackingField]
        /\ Get(addUpdateSetToRecord(currentUpdateSetId, argFields), TrackingField)
              = argFields[TrackingField]
        /\ Get(ApiCreateRecordData(apiCurrentUpdateSetId, argFields), TrackingField)
              = argFields[TrackingField]

C5_Witness ==
    /\ Wrote("create-record")
    /\ CallerSupplied
    /\ argFields[TrackingField] = "usOwn"
    /\ currentUpdateSetId = IdOf(1)
    /\ apiCurrentUpdateSetId = IdOf(1)

\* C6: attaching the tracking field twice gives the payload of attaching once,
\* in the controller, in the client, and when the client's injection follows
\* the controller's with the ids the two hold.
C6_InjectionIdempotent ==
    \A p \in CallerPayloads :
        LET once == addUpdateSetToRecord(currentUpdateSetId, p)
            posted == ApiCreateRecordData(apiCurrentUpdateSetId, p)
        IN  /\ addUpdateSetToRecord(currentUpdateSetId, once) = once
            /\ ApiCreateRecordData(apiCurrentUpdateSetId, posted) = posted
            /\ ApiCreateRecordData(apiCurrentUpdateSetId, once) = once

C6_Witness ==
    /\ Wrote("create-record")
    /\ ~CallerSupplied
    /\ Get(sent[1].data, TrackingField) = IdOf(1)
    /\ currentUpdateSetId = IdOf(1)

\* C7 as claimed: addUpdateSetToRecord leaves the payload object of the caller
\* as it was handed in.
C7_CallerPayloadUntouched ==
    tool = "create-record" => callerFields = argFields

\* C7 as amended: addUpdateSetToRecord returns the object it was handed and
\* injects in place: after a create-record that reached its POST the caller's
\* fields object is the transmitted payload, injected sys_update_set included,
\* and it is as handed in only when nothing was injected.
C7_CallerPayloadIsPostedPayload ==
    Wrote("create-record") =>
        /\ callerFields = sent[1].data
        /\ (Truthy(currentUpdateSetId) /\ ~Truthy(Get(argFields, TrackingField)))
              => Get(callerFields, TrackingField) = currentUpdateSetId

C7_Witness ==
    /\ Wrote("create-record")
    /\ TrackingField \notin DOMAIN argFields
    /\ Get(callerFields, TrackingField) = IdOf(2)

\* C8: whatever the remote negotiation of set-current-update-set does, the
\* tool returns the 'Update set tracked for this session' report and the
\* controller and the client track the given id.
C8_SelectAlwaysReportsTracked ==
    SelectDone =>
        /\ result = Report("update_set_tracked", argId)
        /\ currentUpdateSetId = argId
        /\ apiCurrentUpdateSetId = argId

C8_Witness ==
    /\ SelectDone
    /\ selectFailed
    /\ argId = IdOf(1)
    /\ result.kind = "update_set_tracked"

\* C9 as claimed: the report of set-current-update-set when the preference
\* was confirmed differs from its report when the negotiation failed.
C9_ReportTellsOutcome ==
    (SelectDone /\ Truthy(argId)) => result # SetCurrentReport(~selectFailed, argId)

\* C9 as amended: the report of set-current-update-set is the same whether the
\* preference was confirmed or the negotiation failed; only the logged warning
\* tells the two apart.
C9_ReportSameWarningDiffers ==
    SelectDone =>
        /\ result = SetCurrentReport(~selectFailed, argId)
        /\ warned <=> selectFailed

C9_Witness ==
    /\ SelectDone
    /\ ~selectFailed
    /\ ~warned
    /\ Len(sent) = 3
    /\ result = Report("update_set_tracked", IdOf(2))

\* C10: only set-current-update-set changes the tracked id of the controller
\* and of the client; every other tool, failed or not, leaves both as they were.
C10_OnlySelectMutates ==
    [][tool' # "set-current-update-set" =>
          /\ currentUpdateSetId' = currentUpdateSetId
          /\ apiCurrentUpdateSetId' = apiCurrentUpdateSetId]_vars

C10_Witness ==
    /\ tool = "create-update-set"
    /\ result.kind = "created_update_set"
    /\ currentUpdateSetId = IdOf(1)
    /\ apiCurrentUpdateSetId = IdOf(1)

\* C11 as stated: once an update set has been created the session is Tracked,
\* in the controller and in the client.
C11_CreateMakesTracked ==
    createdUpdateSet => Truthy(currentUpdateSetId) /\ Truthy(apiCurrentUpdateSetId)

\* C11 as amended: creating an update set does not start tracking.  While no
\* update set has been selected the session stays Untracked after the create,
\* and the records the tools create then carry no tracking field of the
\* session's.
C11_CreateAloneDoesNotTrack ==
    (createdUpdateSet /\ ~Truthy(selected)) =>
        /\ ~Truthy(currentUpdateSetId)
        /\ ~Truthy(apiCurrentUpdateSetId)
        /\ tool # "set-current-update-set" =>
               \A i \in Posts : ~CallerSupplied => TrackingField \notin DOMAIN sent[i].data

C11_Witness ==
    /\ createdUpdateSet
    /\ ~Truthy(selected)
    /\ Wrote("create-script-include")
    /\ sent[1].outcome = "ok"
    /\ TrackingField \notin DOMAIN sent[1].data

\* C12: create-update-set issues exactly one request, a create on
\* sys_update_set whose name is the configured prefix followed by the given
\* name, whose state is "build" and whose application is the client's current
\* default scope: the configured one until set-application-scope(x), x after.
C12_CreateUpdateSetPayload ==
    tool = "create-update-set" =>
        /\ Len(sent) = 1
        /\ sent[1].method = "POST"
        /\ sent[1].table = "sys_update_set"
        /\ sent[1].data.name = UpdateSetPrefix \o argId
        /\ sent[1].data.state = "build"
        /\ sent[1].data.application =
               (IF lastScope = JsUndefined THEN ConfiguredScope ELSE lastScope)

C12_Witness ==
    /\ tool = "create-update-set"
    /\ argId = "Fix"
    /\ lastScope = "x_app"
    /\ sent[1].data.name = "MCP_Fix"
    /\ sent[1].data.application = "x_app"

\* C13: the client's updateRecord sends the payload it was given, whatever the
\* client's tracked id; the PUT of update-business-rule carries what the
\* controller handed over and nothing the client added.
C13_UpdateSendsPayloadAsGiven ==
    /\ \A p \in CallerPayloads, o \in WriteOutcomes :
           ApiUpdateRecord(apiCurrentUpdateSetId, "sys_script", "br1", p, o).sent
               = <<Request("PUT", "sys_script", p, o, 0)>>
    /\ Wrote("update-business-rule") =>
           sent[Len(sent)].data = addUpdateSetToRecord(currentUpdateSetId, argFields)

C13_Witness ==
    /\ Wrote("update-business-rule")
    /\ apiCurrentUpdateSetId = IdOf(1)
    /\ sent[Len(sent)].method = "PUT"
    /\ sent[Len(sent)].data.name = "n"

\* the last request of the invocation failed at the remote end
RemoteFailed == Len(sent) > 0 /\ sent[Len(sent)].outcome = "error"

C16_GetCurrentFallbacks ==
    tool = "get-current-update-set" =>
        /\ (Truthy(currentUpdateSetId) /\ RemoteFailed)
               => result = Report("current_id_only", currentUpdateSetId)
        /\ ~Truthy(currentUpdateSetId)
               => result = Report("none_tracked", JsUndefined) /\ sent = <<>>

C16_Witness ==
    /\ tool = "get-current-update-set"
    /\ currentUpdateSetId = IdOf(2)
    /\ RemoteFailed
    /\ result = Report("current_id_only", IdOf(2))

\* an invocation has entered getServiceNowApi
Entered(p) == pc[p] # "idle" \/ calls[p] > 0

\* every invocation that asked for the client holds the one instance built
SingleInstance ==
    /\ builds <= 1
    /\ auths <= 1
    /\ \A p \in Callers : Entered(p) =>
           /\ builds = 1
           /\ auths = 1
           /\ got[p] = serviceNowApi
           /\ got[p] = BuiltInstance(1)

\* C14: under every interleaving of invocations the client is constructed
\* once and authenticate() is called once, as soon as any invocation has asked
\* for the client; every invocation is handed that one instance, and the
\* client's tracked id is never lost to a rebuild.
C14_SingleConstruction ==
    /\ []SingleInstance
    /\ [][Truthy(apiCurrentUpdateSetId) => Truthy(apiCurrentUpdateSetId')]_vars

C14_Witness ==
    /\ pc[1] = "authenticating"
    /\ pc[2] = "returned"
    /\ calls[3] = 1
    /\ apiCurrentUpdateSetId = IdOf(1)
    /\ builds = 1

\* create-catalog-ui-policy-action has run
PolicyActionDone == tool = "create-catalog-ui-policy-action"

\* every request of the invocation was answered
AllAnswered == \A i \in 1..Len(sent) : sent[i].outcome = "ok"

NoCreateIssued ==
    \A i \in 1..Len(sent) :
        ~(sent[i].method = "POST" /\ sent[i].table = "catalog_ui_policy_action")

\* the catalog_item field of the policy row the remote instance holds
PolicyRef == policyRows[1].catalog_item

\* the reference names a catalog item
RefHasItem == PolicyRef.kind \in {"string", "object"}
                  /\ (PolicyRef.str \in CatalogItemIds \/ PolicyRef.value \in CatalogItemIds)

\* the catalog item it names
RefItem == IF PolicyRef.kind = "object" THEN PolicyRef.value ELSE PolicyRef.str

\* the variables the remote instance holds under that item, all or of one name
RemoteVariables == IF RefItem = "cat1" THEN itemVariables ELSE <<>>
RemoteMatches == SelectSeq(RemoteVariables, LAMBDA v : v.name = argFields.variable_name)

\* C17: createCatalogUIPolicyAction fails before it writes.  With no policy
\* row the error is the policy not-found error; with a policy row that has no
\* catalog item, or an empty reference, it is an invalid-state error; with no
\* variable of the given name under the catalog item it is the variable
\* not-found error, whenever the requests it made were all answered.  In none
\* of these cases is a create issued, answered or not.
C17_FailsBeforeWriting ==
    PolicyActionDone =>
        /\ Len(policyRows) = 0 =>
               /\ NoCreateIssued
               /\ AllAnswered => failure.message = "policy_not_found"
        /\ (Len(policyRows) = 1 /\ PolicyRef.kind # "object" /\ PolicyRef.str \in {JsUndefined, ""}) =>
               /\ NoCreateIssued
               /\ AllAnswered => failure.message = "policy_has_no_catalog_item"
        /\ (Len(policyRows) = 1 /\ PolicyRef.kind = "object" /\ PolicyRef.value = "") =>
               /\ NoCreateIssued
               /\ AllAnswered => failure.message = "catalog_item_reference_empty"
        /\ (Len(policyRows) = 1 /\ RefHasItem /\ Len(RemoteMatches) = 0) =>
               /\ NoCreateIssued
               /\ AllAnswered => failure.message = "variable_not_found"

C17_Witness ==
    /\ PolicyActionDone
    /\ Len(policyRows) = 1
    /\ PolicyRef = MissingRef
    /\ AllAnswered
    /\ Len(sent) = 1
    /\ failure.message = "policy_has_no_catalog_item"
    /\ result.kind = "failed_create_catalog_ui_policy_action"

\* the reference x written in the other shape
OtherShape(ref) == IF ref.kind = "object" THEN BareRef(ref.value) ELSE ObjectRef(ref.str)

\* C18: whether the policy row gives its catalog item as the bare string x or
\* as the object {value: x}, the variable query names x and the requests,
\* the action payload included, are the same.
C18_ReferenceShapeTolerance ==
    (PolicyActionDone /\ AllAnswered /\ Len(policyRows) = 1 /\ RefHasItem) =>
        /\ Len(sent) >= 2
        /\ sent[2].data.sysparm_query
               = "cat_item=" \o RefItem \o "^name=" \o argFields.variable_name
        /\ sent = ApiCreateCatalogUIPolicyAction(
                      apiCurrentUpdateSetId, argFields,
                      <<[sys_id |-> "pol1", catalog_item |-> OtherShape(PolicyRef)]>>,
                      itemVariables, 0).sent

C18_Witness ==
    /\ PolicyActionDone
    /\ AllAnswered
    /\ Len(policyRows) = 1
    /\ PolicyRef = ObjectRef("cat1")
    /\ Len(sent) = 3
    /\ sent[2].data.sysparm_query = "cat_item=cat1^name=a"
    /\ sent[3].method = "POST"

\* the variable lookup found nothing and the listing of all variables was answered
VariableNotFound ==
    /\ PolicyActionDone
    /\ AllAnswered
    /\ Len(policyRows) = 1
    /\ RefHasItem
    /\ Len(RemoteMatches) = 0

PolicyActionPosted ==
    /\ PolicyActionDone
    /\ Len(sent) = 3
    /\ sent[3].method = "POST"
    /\ sent[3].table = "catalog_ui_policy_action"

\* field dst of the payload is field src of the arguments, absent if omitted
CopiedAs(src, dst) ==
    IF argFields[src] = JsUndefined
    THEN dst \notin DOMAIN sent[3].data
    ELSE dst \in DOMAIN sent[3].data /\ sent[3].data[dst] = argFields[src]

\* C20: for every combination of the optional arguments the payload posted is
\* the reference mapping of the arguments, and holds no other field than the
\* session's tracking field.
C20_PayloadIsReferenceMapping ==
    PolicyActionPosted =>
        LET d == sent[3].data
            a == argFields
        IN  /\ d.ui_policy = a.catalog_ui_policy
            /\ d.catalog_variable = "IO:" \o RemoteMatches[1].sys_id
            /\ d.variable = a.variable_name
            /\ d.order = (IF a.order \in {JsUndefined, JsNumber(0)} THEN JsNumber(100) ELSE a.order)
            /\ CopiedAs("mandatory", "mandatory")
            /\ CopiedAs("visible", "visible")
            /\ CopiedAs("read_only", "disabled")
            /\ CopiedAs("field_message_type", "help_tag")
            /\ CopiedAs("field_message", "help_text")
            /\ IF a.value_action = JsUndefined THEN "cleared" \notin DOMAIN d
               ELSE "cleared" \in DOMAIN d
                        /\ d.cleared = (IF a.value_action = "clear_value" THEN "true" ELSE "false")
            /\ IF a.value # JsUndefined /\ a.value_action = "set_value"
               THEN "default_value" \in DOMAIN d /\ d.default_value = a.value
               ELSE "default_value" \notin DOMAIN d
            /\ DOMAIN d \subseteq
                   {"ui_policy", "catalog_variable", "variable", "order", "mandatory", "visible",
                    "disabled", "cleared", "default_value", "help_tag", "help_text"}
                       \cup (IF Truthy(apiCurrentUpdateSetId) THEN {TrackingField} ELSE {})

C20_Witness ==
    /\ PolicyActionPosted
    /\ Len(itemVariables) = 3
    /\ argFields.variable_name = "a"
    /\ argFields.order = JsNumber(0)
    /\ argFields.read_only = "true"
    /\ argFields.value_action = "clear_value"
    /\ argFields.value = "v"
    /\ sent[3].data.order = "<100>"
    /\ sent[3].data.disabled = "true"
    /\ sent[3].data.cleared = "true"
    /\ sent[3].data.catalog_variable = "IO:var1"
    /\ "default_value" \notin DOMAIN sent[3].data

\* the flag of the posted payload and the argument it was built from
FlagPairs(name) ==
    IF name = "create-scheduled-job"
    THEN {<<"active", "active">>, <<"conditional", "conditional">>}
    ELSE {<<"active", "active">>,
          <<"applies_catalog", "applies_on_catalog_item_view">>,
          <<"applies_req_item", "applies_on_requested_items">>,
          <<"applies_sc_task", "applies_on_catalog_tasks">>,
          <<"applies_target_record", "applies_on_target_record">>,
          <<"on_load", "on_load">>,
          <<"reverse_if_false", "reverse_if_false">>}

FlagsPosted == tool \in {"create-scheduled-job", "create-catalog-ui-policy"} /\ Len(sent) = 1

\* the flags the helpers build with `!== false`
DefaultTrueFlags == {"active", "applies_catalog", "on_load"}

\* C21 as stated: every boolean flag of the payload is true unless the
\* argument was an explicit false.
C21_FlagsDefaultTrue ==
    FlagsPosted =>
        \A pr \in FlagPairs(tool) :
            sent[1].data[pr[1]] = (IF argFields[pr[2]] = JsFalse THEN JsFalse ELSE JsTrue)

\* C21 as amended: active, applies_on_catalog_item_view and on_load are true
\* unless the argument was an explicit false; conditional,
\* applies_on_requested_items, applies_on_catalog_tasks,
\* applies_on_target_record and reverse_if_false are false unless the argument
\* was an explicit true; an explicit true is never replaced by false.
C21_FlagDefaultsPerFlag ==
    FlagsPosted =>
        \A pr \in FlagPairs(tool) :
            /\ pr[1] \in DefaultTrueFlags =>
                   sent[1].data[pr[1]] = (IF argFields[pr[2]] = JsFalse THEN JsFalse ELSE JsTrue)
            /\ pr[1] \notin DefaultTrueFlags =>
                   sent[1].data[pr[1]] = (IF argFields[pr[2]] = JsTrue THEN JsTrue ELSE JsFalse)
            /\ argFields[pr[2]] = JsTrue => sent[1].data[pr[1]] = JsTrue

C21_Witness ==
    /\ FlagsPosted
    /\ tool = "create-catalog-ui-policy"
    /\ argFields.reverse_if_false = JsUndefined
    /\ argFields.applies_on_requested_items = JsTrue
    /\ argFields.on_load = JsUndefined
    /\ sent[1].data.reverse_if_false = JsFalse
    /\ sent[1].data.applies_req_item = JsTrue
    /\ sent[1].data.on_load = JsTrue

\* implement-invoice-status-inquiry has run, as a preview or for real
InvoiceDone == tool = "implement-invoice-status-inquiry"
InvoiceDryRun == InvoiceDone /\ argFields.dry_run = JsTrue

\* C22 as stated: a dry run issues no request and changes no session state,
\* the memoized client included.
C22_DryRunChangesNothing ==
    [][(tool' = "implement-invoice-status-inquiry" /\ argFields'.dry_run = JsTrue) =>
          /\ sent' = <<>>
          /\ UNCHANGED <<serviceNowApi, currentUpdateSetId, apiCurrentUpdateSetId,
                         defaultScope>>]_vars

\* C22 as amended: a dry run issues no request and leaves the tracked ids and
\* the default scope as they were; it does construct the client when the
\* session had none.
C22_DryRunOnlyBuildsClient ==
    [][(tool' = "implement-invoice-status-inquiry" /\ argFields'.dry_run = JsTrue) =>
          /\ sent' = <<>>
          /\ result'.kind = "invoice_preview"
          /\ serviceNowApi' = "instance"
          /\ UNCHANGED <<currentUpdateSetId, apiCurrentUpdateSetId, defaultScope>>]_vars

C22_Witness ==
    /\ InvoiceDryRun
    /\ sent = <<>>
    /\ result.kind = "invoice_preview"
    /\ serviceNowApi = "instance"
    /\ currentUpdateSetId = JsNull

\* a create request of the run failed
SomeComponentFailed == \E i \in 1..Len(sent) : sent[i].outcome = "error"

\* C30: with dry_run false a failed component creation neither stops the run
\* nor shows in the result: every component is still attempted and listed
\* with its check mark, and the run ends with the success summary.
C30_FailuresInvisible ==
    (InvoiceDone /\ argFields.dry_run = JsFalse) =>
        /\ result.kind = "invoice_implemented"
        /\ Len(result.id) = Len(InvoiceComponents)
        /\ \A i \in 1..Len(InvoiceComponents) :
               /\ result.id[i] = InvoiceComponents[i].name
               /\ \E k \in 1..Len(sent) :
                      /\ sent[k].table = InvoiceComponents[i].table
                      /\ sent[k].data.name = InvoiceComponents[i].name

C30_Witness ==
    /\ InvoiceDone
    /\ argFields.dry_run = JsFalse
    /\ sent[1].outcome = "error"
    /\ sent[Len(sent)].outcome = "ok"
    /\ SomeComponentFailed
    /\ result.kind = "invoice_implemented"
    /\ Len(result.id) = 29

\* the argument is missing or empty
Missing(f) == argFields[f] \in {JsUndefined, ""}

\* C23: argument validation precedes every remote write.  create-variable
\* without a required field, of type 'reference' without reference_table or of
\* type 'choice' without choices, and create-business-rule without a required
\* field or with a 'when' outside {before, after, async, display}, return a
\* failure text and issue no request.
C23_ValidationPrecedesWrites ==
    /\ (tool = "create-variable"
          /\ (\/ Missing("name") \/ Missing("question_text") \/ Missing("type")
              \/ Missing("catalog_item")
              \/ (argFields.type = "reference" /\ Missing("reference_table"))
              \/ (argFields.type = "choice" /\ Missing("choices"))))
           => result.kind = "failed_create_variable" /\ sent = <<>>
    /\ (tool = "create-business-rule"
          /\ (\/ Missing("name") \/ Missing("table") \/ Missing("when") \/ Missing("script")
              \/ argFields.when \notin {"before", "after", "async", "display"}))
           => result.kind = "failed_create_business_rule" /\ sent = <<>>

C23_Witness ==
    /\ tool = "create-variable"
    /\ ~Missing("name") /\ ~Missing("question_text") /\ ~Missing("catalog_item")
    /\ argFields.type = "reference"
    /\ Missing("reference_table")
    /\ currentUpdateSetId = IdOf(1)
    /\ result = Report("failed_create_variable", "reference_table_required")
    /\ sent = <<>>

\* the preference write of the select, if it came to one
PreferenceWrites ==
    {i \in 1..Len(sent) : sent[i].table = "sys_user_preference"
                              /\ sent[i].method \in {"PUT", "POST"}}

\* C25: the client's select queries the user, then the preference, and writes
\* the preference at most once: one PUT with value s and no POST when a
\* preference row exists, one POST with value s when none exists, and neither
\* a preference query nor a write when the user lookup fails or finds no row.
C25_LocateThenLocateOrCreate ==
    SelectDone =>
        /\ Len(sent) >= 1
        /\ sent[1].method = "GET" /\ sent[1].table = "sys_user"
        /\ Cardinality(PreferenceWrites) <= 1
        /\ (sent[1].outcome = "error" \/ sent[1].rows = 0) => Len(sent) = 1
        /\ (sent[1].outcome = "ok" /\ sent[1].rows = 1) =>
               /\ Len(sent) >= 2
               /\ sent[2].method = "GET" /\ sent[2].table = "sys_user_preference"
               /\ (sent[2].outcome = "ok" /\ sent[2].rows = 1) =>
                      /\ Len(sent) = 3
                      /\ sent[3].method = "PUT"
                      /\ sent[3].table = "sys_user_preference"
                      /\ sent[3].data = [value |-> argId]
               /\ (sent[2].outcome = "ok" /\ sent[2].rows = 0) =>
                      /\ Len(sent) = 3
                      /\ sent[3].method = "POST"
                      /\ sent[3].table = "sys_user_preference"
                      /\ sent[3].data.value = argId

C25_Witness ==
    /\ SelectDone
    /\ argId = IdOf(2)
    /\ Len(sent) = 3
    /\ sent[2].rows = 1
    /\ sent[3].method = "PUT"
    /\ sent[3].data.value = IdOf(2)

\* the select had to create the preference record
PreferenceCreated == SelectDone /\ Len(sent) = 3 /\ sent[3].method = "POST"

\* C28: a preference record created by select(s) is posted while the client
\* still tracks its previous id p: the payload carries sys_update_set = p when
\* the client tracked one, and no tracking field when it tracked none.
C28_PreferenceStampedWithPreviousId ==
    PreferenceCreated =>
        IF prevSelected \in {JsUndefined, ""}
        THEN TrackingField \notin DOMAIN sent[3].data
        ELSE Get(sent[3].data, TrackingField) = prevSelected

C28_Witness ==
    /\ PreferenceCreated
    /\ prevSelected = IdOf(1)
    /\ argId = IdOf(2)
    /\ sent[3].data.value = IdOf(2)
    /\ sent[3].data.sys_update_set = IdOf(1)
    /\ apiCurrentUpdateSetId = IdOf(2)

\* C29: update-business-rule attaches tracking to the edit.  In a session
\* tracking s the PUT on sys_script carries sys_update_set = s besides the
\* fields the caller asked to change, and the 'Updated fields' of the result
\* list those fields without sys_update_set.
C29_UpdateCarriesTracking ==
    (Wrote("update-business-rule") /\ Truthy(currentUpdateSetId)) =>
        LET d == sent[Len(sent)].data
        IN  /\ sent[Len(sent)].method = "PUT"
            /\ sent[Len(sent)].table = "sys_script"
            /\ Get(d, TrackingField) = currentUpdateSetId
            /\ DOMAIN d = (DOMAIN argFields) \cup {TrackingField}
            /\ \A f \in DOMAIN argFields : d[f] = argFields[f]
            /\ result.kind = "updated_business_rule" => updatedFields = DOMAIN argFields

C29_Witness ==
    /\ Wrote("update-business-rule")
    /\ currentUpdateSetId = IdOf(2)
    /\ result.kind = "updated_business_rule"
    /\ sent[Len(sent)].data.sys_update_set = IdOf(2)
    /\ updatedFields = {"name", "when"}
    /\ sent[Len(sent)].data.when = "before"

(***************************************************************************)
(* Overlapping invocations                                                 *)
(***************************************************************************)
\* the invocation is suspended in the client's negotiation
Negotiating(c) == Selecting(c) /\ at[c] \in {"user", "pref", "write"}

\* the invocation was started and has not returned
InFlight(c) == at[c] \notin {"idle", "done"}

\* this step issues the first request of invocation c
IssuesFirstRequest(c) == Len(wire[c]) = 0 /\ Len(wire'[c]) = 1

\* C24: in set-current-update-set(s) the controller's tracked id is s at the
\* moment the client's negotiation issues its first remote request, the user
\* lookup: the local store is not behind any remote step.
C24_LocalCommitFirst ==
    [][\A c \in Invocations :
          (Selecting(c) /\ IssuesFirstRequest(c)) =>
              /\ wire'[c][1].table = "sys_user"
              /\ wire'[c][1].outcome = "pending"
              /\ currentUpdateSetId' = job[c].id]_vars

\* a user lookup is unanswered, the controller already tracks its id, the
\* client still tracks another one
C24_Witness ==
    \E c \in Invocations :
        /\ Selecting(c)
        /\ at[c] = "user"
        /\ wire[c][1].outcome = "pending"
        /\ currentUpdateSetId = job[c].id
        /\ apiCurrentUpdateSetId # job[c].id

\* the two owners hold the same id, or neither holds one
OwnersAgree ==
    \/ currentUpdateSetId = apiCurrentUpdateSetId
    \/ ~Truthy(currentUpdateSetId) /\ ~Truthy(apiCurrentUpdateSetId)

\* C26: whenever no set-current-update-set invocation is in flight and the
\* client exists, the controller's tracked id equals the client's tracked id,
\* under every interleaving of overlapping set-current-update-set(a) and
\* set-current-update-set(b) with a # b.
C26_OwnersAgreeAtRest ==
    (/\ Truthy(serviceNowApi)
     /\ \A c \in Invocations : Selecting(c) => ~InFlight(c))
        => OwnersAgree

\* C27: while one set-current-update-set(s) is suspended in its negotiation
\* (and no other one has stored anything), a creation that posts in that
\* window is stamped by its path: create-record, which the controller wraps,
\* with s; create-script-include, which only the client stamps, with the id
\* the client tracked before, or not at all if it tracked none.
C27_StampByPathDuringSelect ==
    [][\A c \in Invocations, d \in Invocations :
          (/\ ~Selecting(c)
           /\ IssuesFirstRequest(c)
           /\ Negotiating(d)
           /\ \A e \in Invocations \ {d} :
                  Selecting(e) => at[e] \in {"idle", "returned"})
          => LET stamp == Get(wire'[c][1].data, TrackingField)
             IN  IF job[c].tool = "create-record"
                 THEN stamp = job[d].id
                 ELSE stamp = selected]_vars

\* a create-record carries the id of a set-current-update-set that is still
\* negotiating and that differs from the id selected before
C27_Witness ==
    \E c \in Invocations, d \in Invocations :
        /\ job[c].tool = "create-record"
        /\ Negotiating(d)
        /\ Len(wire[c]) = 1
        /\ Get(wire[c][1].data, TrackingField) = job[d].id
        /\ selected # job[d].id
        /\ apiCurrentUpdateSetId = selected

====
